---- MODULE Spec2Model ----
(***************************************************************************)
(* Model of nova/quota.py: the DB quota driver's limit resolution and      *)
(* limit checks, and the QuotaEngine facade in front of the drivers.       *)
(*                                                                         *)
(* A Python dict is a function on the set of its keys; the order in which  *)
(* a dict or set is iterated is an input of each call (a sequence `ord`    *)
(* of all names), so that sorted() is an operation that changes something. *)
(* The request context is the one of project "p1" and one of its users;    *)
(* project_id and user_id are left to default to the context's.            *)
(*                                                                         *)
(* Each topic has its own specification over the same variables: the limit *)
(* checks (Spec, SpecEngine), the settable ranges (SpecSettable), driver   *)
(* resolution (SpecResolve, SpecDriverThreads), the registry               *)
(* (SpecRegistry), the no-op and unified-limits drivers (SpecNoop,         *)
(* SpecUnified), check-then-create races (SpecRace) and the migration gate *)
(* (SpecGateSeq, SpecGate).                                                *)
(***************************************************************************)
EXTENDS Integers, Sequences, FiniteSets, TLC

VARIABLES
    projectQuotas,   \* stored per-project overrides of the context's project
    userQuotas,      \* stored per-user overrides of the context's user
    classQuotas,     \* limits of the quota class named by the context
    defaultClass,    \* limits of the quota class named "default"
    ctxQuotaClass,   \* context.quota_class ("None" when the context has none)
    usage,           \* current usage per resource, as a count would report it
    CONF_driver,     \* CONF.quota.driver
    engine_driver,       \* QuotaEngine.__driver: class of the cached driver
    engine_driver_name,  \* QuotaEngine.__driver_name
    last,            \* the call the caller is looking at: arguments and outcome
    otherUserQuotas, \* stored per-user overrides of the project's other users
    userUsage,       \* current usage per resource of the context's user
    driver_override,     \* QuotaEngine.__driver_override
    engine_driver_id,    \* identity of the cached driver instance (0: none yet)
    constructed,         \* number of driver instances constructed so far
    unified,         \* what the unified-limits backends hold
    populated,       \* projects whose instance mappings are all migrated
    UID_QFD_POPULATED_CACHE_ALL,
    UID_QFD_POPULATED_CACHE_BY_PROJECT,
    procs            \* the concurrent requests: position and locals of each

dbvars == <<projectQuotas, userQuotas, classQuotas, defaultClass, ctxQuotaClass, usage>>
engvars == <<CONF_driver, engine_driver, engine_driver_name>>
\* the identity bookkeeping of the driver-resolution cache
idvars == <<engine_driver_id, constructed>>
\* the migration-gate cache
gatevars == <<UID_QFD_POPULATED_CACHE_ALL, UID_QFD_POPULATED_CACHE_BY_PROJECT>>
\* what the calls of the limit checks never touch
restvars == <<otherUserQuotas, userUsage, driver_override, unified, populated,
              UID_QFD_POPULATED_CACHE_ALL, UID_QFD_POPULATED_CACHE_BY_PROJECT,
              procs>>
vars == <<projectQuotas, userQuotas, classQuotas, defaultClass, ctxQuotaClass,
          usage, CONF_driver, engine_driver, engine_driver_name, last,
          otherUserQuotas, userUsage, driver_override, engine_driver_id,
          constructed, unified, populated, UID_QFD_POPULATED_CACHE_ALL,
          UID_QFD_POPULATED_CACHE_BY_PROJECT, procs>>

-----------------------------------------------------------------------------
(* Bounds of the model *)

\* the largest number of distinct resource names one call names
MaxKeys == 2

\* names a caller passes: two registered resources and one unregistered name
CheckNames == {"bogus", "cores", "instances"}

\* proposed values of limit_check
Values == {-1, 0, 5, 23}

\* proposed values of limit_check_project_and_user
DualValues == {-1, 0, 5}

\* stored limits
StoredProjectLimits == {-1, 2, 20}
StoredUserLimits == {-1, 2, 20}

-----------------------------------------------------------------------------
(* Python values *)

None == "None"

EmptyDict == [k \in {} |-> 0]

Get(d, k, dflt) == IF k \in DOMAIN d THEN d[k] ELSE dflt

Range(s) == {s[i] : i \in 1..Len(s)}

\* the partial maps from names in S to values in V with at most n keys
Dicts(S, V, n) ==
    UNION {[K -> V] : K \in {K \in SUBSET S : Cardinality(K) <= n}}

\* string comparison of the names of the model
NameOrder == <<"bogus", "cores", "fixed_ips", "instances">>

AllNames == Range(NameOrder)

Rank(n) == CHOOSE i \in 1..Len(NameOrder) : NameOrder[i] = n

Reverse(s) == [i \in 1..Len(s) |-> s[Len(s) + 1 - i]]

\* the orders in which a call iterates its dicts and sets
IterOrders == {NameOrder, Reverse(NameOrder)}

\* the keys of d (or the members of a set) in iteration order
KeysOf(S, ord) == SelectSeq(ord, LAMBDA k : k \in S)

RECURSIVE InsertSorted(_, _)
InsertSorted(x, s) ==
    IF s = <<>> THEN <<x>>
    ELSE IF Rank(x) <= Rank(Head(s)) THEN <<x>> \o s
    ELSE <<Head(s)>> \o InsertSorted(x, Tail(s))

RECURSIVE sorted(_)
sorted(s) == IF s = <<>> THEN <<>> ELSE InsertSorted(Head(s), sorted(Tail(s)))

MinOf(S) == CHOOSE x \in S : \A y \in S : x <= y

-----------------------------------------------------------------------------
(* The registry and the configuration *)

Resource(valid_method, countable, flag) ==
    [valid_method |-> valid_method, count_as_dict |-> countable, flag |-> flag]

\* QUOTAS: the registered resources the model keeps
QUOTAS ==
    ("cores" :> Resource("check", TRUE, "cores")) @@
    ("instances" :> Resource("check", TRUE, "instances")) @@
    ("fixed_ips" :> Resource("check", FALSE, None))

\* context.project_id
context_project_id == "p1"

\* CONF.quota[flag]
CONF_quota == ("cores" :> 20) @@ ("instances" :> 20)

\* BaseResource.default
default(res) == IF res.flag # None THEN CONF_quota[res.flag] ELSE -1

-----------------------------------------------------------------------------
(* The outcome of a call: what the caller sees, and the backend reads made *)

NoCall ==
    [op |-> "none", driver |-> None,
     values |-> EmptyDict,
     project_values |-> EmptyDict, project_values_given |-> FALSE,
     user_values |-> EmptyDict, user_values_given |-> FALSE,
     project_values_after |-> EmptyDict, user_values_after |-> EmptyDict,
     resource |-> None,
     outcome |-> "none", res |-> None,
     unknown |-> <<>>, unders |-> <<>>, overs |-> <<>>,
     quotas |-> EmptyDict, headroom |-> EmptyDict, count |-> EmptyDict,
     reads |-> <<>>,
     args |-> EmptyDict, result |-> EmptyDict]

\* exception.InvalidQuotaMethodUsage(method=method, res=name)
InvalidQuotaMethodUsage(name) ==
    [NoCall EXCEPT !.outcome = "InvalidQuotaMethodUsage", !.res = name]

\* exception.InvalidQuotaValue(unders=...)
InvalidQuotaValue(unders) ==
    [NoCall EXCEPT !.outcome = "InvalidQuotaValue", !.unders = unders]

\* exception.QuotaResourceUnknown(unknown=...)
QuotaResourceUnknown(unknown, reads) ==
    [NoCall EXCEPT !.outcome = "QuotaResourceUnknown", !.unknown = unknown,
                   !.reads = reads]

\* exception.Invalid('Must specify at least one of ...')
Invalid == [NoCall EXCEPT !.outcome = "Invalid"]

\* exception.OverQuota(overs=..., quotas=..., usages={}, headroom=...)
OverQuota(overs, quotas, headroom, reads) ==
    [NoCall EXCEPT !.outcome = "OverQuota", !.overs = overs, !.quotas = quotas,
                   !.headroom = headroom, !.reads = reads]

\* a method that returns None
Returned(reads) == [NoCall EXCEPT !.outcome = "ok", !.reads = reads]

-----------------------------------------------------------------------------
(* DbQuotaDriver: limit resolution *)

\* DbQuotaDriver.get_defaults: the "default" class, else the configured default
get_defaults(resources) ==
    [n \in DOMAIN resources |-> Get(defaultClass, n, default(resources[n]))]

get_defaults_reads == <<"get_default_class">>

\* objects.Quotas.get_all_class_by_name: "gold" is the one class that holds
\* limits, any other name holds none
get_all_class_by_name(quota_class) ==
    IF quota_class = "gold" THEN classQuotas ELSE EmptyDict

\* a resolution that takes the class passed in, whatever the project
_process_quotas_passed_class(resources, project_id, quotas, quota_class) ==
    LET class_quotas == IF quota_class # None
                        THEN get_all_class_by_name(quota_class) ELSE EmptyDict
        default_quotas == get_defaults(resources)
    IN  [n \in DOMAIN resources |->
            Get(quotas, n, Get(class_quotas, n, default_quotas[n]))]

\* DbQuotaDriver._process_quotas without usages and remains
_process_quotas(resources, project_id, quotas, quota_class) ==
    LET the_class == IF project_id = context_project_id THEN ctxQuotaClass
                     ELSE quota_class
        class_quotas == IF the_class # None THEN get_all_class_by_name(the_class)
                        ELSE EmptyDict
        default_quotas == get_defaults(resources)
    IN  [n \in DOMAIN resources |->
            Get(quotas, n, Get(class_quotas, n, default_quotas[n]))]

_process_quotas_reads(project_id, quota_class) ==
    (IF (IF project_id = context_project_id THEN ctxQuotaClass
         ELSE quota_class) # None THEN <<"get_all_class_by_name">> ELSE <<>>)
        \o get_defaults_reads

\* DbQuotaDriver.get_project_quotas(usages=False, project_quotas=...)
get_project_quotas(resources, project_id, quota_class, project_quotas) ==
    LET stored == IF project_quotas # EmptyDict THEN project_quotas
                  ELSE projectQuotas
    IN  _process_quotas(resources, project_id, stored, quota_class)

get_project_quotas_reads(project_id, quota_class, project_quotas) ==
    (IF project_quotas # EmptyDict THEN <<>> ELSE <<"get_all_by_project">>)
        \o _process_quotas_reads(project_id, quota_class)

\* DbQuotaDriver.get_user_quotas(usages=False, project_quotas=...): the
\* stored user overrides, completed by the project's
get_user_quotas(resources, project_id, quota_class, project_quotas) ==
    LET user_quotas == userQuotas
        proj_quotas == IF project_quotas # EmptyDict THEN project_quotas
                       ELSE projectQuotas
        merged == [k \in DOMAIN user_quotas \cup DOMAIN proj_quotas |->
                      IF k \in DOMAIN user_quotas THEN user_quotas[k]
                      ELSE proj_quotas[k]]
    IN  _process_quotas(resources, project_id, merged, quota_class)

get_user_quotas_reads(project_id, quota_class, project_quotas) ==
    <<"get_all_by_project_and_user">>
        \o (IF project_quotas # EmptyDict THEN <<>> ELSE <<"get_all_by_project">>)
        \o _process_quotas_reads(project_id, quota_class)

\* DbQuotaDriver._get_quotas: [unknown, limits, reads]; unknown is the sorted
\* list the QuotaResourceUnknown it raises carries, and <<>> when it returns
_get_quotas(resources, keys, project_id, for_user, project_quotas, ord) ==
    LET sub_resources == [k \in DOMAIN resources \cap keys |-> resources[k]]
        unknown == keys \ DOMAIN sub_resources
    IN  IF Cardinality(keys) # Cardinality(DOMAIN sub_resources)
        THEN [unknown |-> sorted(KeysOf(unknown, ord)), limits |-> EmptyDict,
              reads |-> <<>>]
        ELSE IF for_user
        THEN [unknown |-> <<>>,
              limits |-> get_user_quotas(sub_resources, project_id,
                                         ctxQuotaClass, project_quotas),
              reads |-> get_user_quotas_reads(project_id, ctxQuotaClass,
                                              project_quotas)]
        ELSE [unknown |-> <<>>,
              limits |-> get_project_quotas(sub_resources, project_id,
                                            ctxQuotaClass, project_quotas),
              reads |-> get_project_quotas_reads(project_id, ctxQuotaClass,
                                                 project_quotas)]

\* mutant: the check of the names is left out
_valid_method_call_check_resources_skipped(resource_values, method, resources, ord) ==
    <<>>

\* _valid_method_call_check_resources: the names that fail the check, in the
\* order the dict is iterated; the first of them is the one raised
_valid_method_call_check_resources(resource_values, method, resources, ord) ==
    SelectSeq(KeysOf(DOMAIN resource_values, ord),
              LAMBDA name : \/ name \notin DOMAIN resources
                            \/ resources[name].valid_method # method)

-----------------------------------------------------------------------------
(* DbQuotaDriver.limit_check *)

\* mutant: a value of 0 counts as negative
unders_of_nonpositive(values, ord) ==
    SelectSeq(KeysOf(DOMAIN values, ord), LAMBDA k : values[k] <= 0)

\* unders = [key for key, val in values.items() if val < 0]
unders_of(values, ord) ==
    SelectSeq(KeysOf(DOMAIN values, ord), LAMBDA k : values[k] < 0)

\* mutant: an Unlimited limit is compared like a concrete one
limit_check_overs_unguarded(values, quotas, user_quotas, ord) ==
    SelectSeq(KeysOf(DOMAIN values, ord), LAMBDA k :
        quotas[k] < values[k] \/ user_quotas[k] < values[k])

\* mutant: the proposed value is added to the current usage
limit_check_overs_with_usage(values, quotas, user_quotas, ord) ==
    SelectSeq(KeysOf(DOMAIN values, ord), LAMBDA k :
        \/ (quotas[k] >= 0 /\ quotas[k] < usage[k] + values[k])
        \/ (user_quotas[k] >= 0 /\ user_quotas[k] < usage[k] + values[k]))

\* a comparison that lets a value one above the limit pass
limit_check_overs_lenient(values, quotas, user_quotas, ord) ==
    SelectSeq(KeysOf(DOMAIN values, ord),
              LAMBDA key : \/ (quotas[key] >= 0 /\ quotas[key] + 1 < values[key])
                           \/ (user_quotas[key] >= 0
                               /\ user_quotas[key] + 1 < values[key]))

\* overs = [key for key, val in values.items()
\*          if quotas[key] >= 0 and quotas[key] < val or
\*          (user_quotas[key] >= 0 and user_quotas[key] < val)]
limit_check_overs(values, quotas, user_quotas, ord) ==
    SelectSeq(KeysOf(DOMAIN values, ord), LAMBDA k :
        \/ (quotas[k] >= 0 /\ quotas[k] < values[k])
        \/ (user_quotas[k] >= 0 /\ user_quotas[k] < values[k]))

\* headroom[key] = min(val for val in (quotas.get(key),
\*                     project_quotas.get(key)) if val is not None)
limit_check_headroom(overs, quotas, project_quotas) ==
    [k \in Range(overs) |->
        MinOf((IF k \in DOMAIN quotas THEN {quotas[k]} ELSE {}) \cup
              (IF k \in DOMAIN project_quotas THEN {project_quotas[k]}
               ELSE {}))]

limit_check(resources, values, ord) ==
    LET invalid == _valid_method_call_check_resources(values, "check",
                                                      resources, ord)
        unders == unders_of(values, ord)
        project_id == context_project_id
        project_quotas == projectQuotas
        q == _get_quotas(resources, DOMAIN values, project_id, FALSE,
                         project_quotas, ord)
        uq == _get_quotas(resources, DOMAIN values, project_id, TRUE,
                          project_quotas, ord)
        reads == <<"get_all_by_project">> \o q.reads \o uq.reads
        quotas == q.limits
        user_quotas == uq.limits
        overs == limit_check_overs(values, quotas, user_quotas, ord)
        headroom == limit_check_headroom(overs, quotas, project_quotas)
    IN  IF invalid # <<>> THEN InvalidQuotaMethodUsage(Head(invalid))
        ELSE IF unders # <<>> THEN InvalidQuotaValue(sorted(unders))
        ELSE IF q.unknown # <<>>
        THEN QuotaResourceUnknown(q.unknown, <<"get_all_by_project">>)
        ELSE IF overs # <<>> THEN OverQuota(sorted(overs), quotas, headroom, reads)
        ELSE Returned(reads)

-----------------------------------------------------------------------------
(* DbQuotaDriver.limit_check_project_and_user *)

\* an optional dict argument: the dict the caller passed, or None
Given(d) == [given |-> TRUE, d |-> d]
NotGiven == [given |-> FALSE, d |-> EmptyDict]

\* mutant: all() in the place of any()
no_values_all(project_values, user_values) ==
    ~(project_values # EmptyDict /\ user_values # EmptyDict)

\* not any([project_values, user_values])
no_values(project_values, user_values) ==
    ~(project_values # EmptyDict \/ user_values # EmptyDict)

\* the first non-empty unders of (project_values, user_values)
dual_unders(project_values, user_values, ord) ==
    IF unders_of(project_values, ord) # <<>>
    THEN unders_of(project_values, ord)
    ELSE unders_of(user_values, ord)

\* keys_to_merge = set(project_values).symmetric_difference(user_values)
keys_to_merge_of(project_values, user_values) ==
    (DOMAIN project_values \ DOMAIN user_values) \cup
    (DOMAIN user_values \ DOMAIN project_values)

\* merged_values[key] = (project_values.get(key, 0) or user_values.get(key, 0))
merged_values_of(project_values, user_values) ==
    [k \in keys_to_merge_of(project_values, user_values) |->
        IF Get(project_values, k, 0) # 0 THEN project_values[k]
        ELSE Get(user_values, k, 0)]

\* merged_quotas: the minimum of the project-scope and the user-scope limit
merged_quotas_of(quotas, user_quotas) ==
    [k \in DOMAIN quotas \cup DOMAIN user_quotas |->
        IF k \notin DOMAIN user_quotas THEN quotas[k]
        ELSE IF k \in DOMAIN quotas THEN MinOf({quotas[k], user_quotas[k]})
        ELSE user_quotas[k]]

\* overs = [key for key, val in merged_values.items()
\*          if merged_quotas[key] >= 0 and merged_quotas[key] < val]
merged_overs_of(merged_values, merged_quotas, ord) ==
    SelectSeq(KeysOf(DOMAIN merged_values, ord), LAMBDA k :
        merged_quotas[k] >= 0 /\ merged_quotas[k] < merged_values[k])

over_project(k, quotas, project_values) ==
    quotas[k] >= 0 /\ quotas[k] < project_values[k]

over_user(k, user_quotas, user_values) ==
    user_quotas[k] >= 0 /\ user_quotas[k] < user_values[k]

\* the loop over user_values.keys(): the keys appended to overs
split_overs(project_values, user_values, quotas, user_quotas, ord) ==
    SelectSeq(KeysOf(DOMAIN user_values, ord), LAMBDA k :
        \/ over_project(k, quotas, project_values)
        \/ over_user(k, user_quotas, user_values))

\* the loop over user_values.keys(): over_user_quota when it ends
split_over_user_quota(project_values, user_values, quotas, user_quotas) ==
    \E k \in DOMAIN user_values :
        /\ ~over_project(k, quotas, project_values)
        /\ over_user(k, user_quotas, user_values)

limit_check_project_and_user(resources, project_values_arg, user_values_arg, ord) ==
    LET project_values == IF project_values_arg.given THEN project_values_arg.d
                          ELSE EmptyDict
        user_values == IF user_values_arg.given THEN user_values_arg.d
                       ELSE EmptyDict
        invalid == _valid_method_call_check_resources(project_values, "check",
                                                      resources, ord)
                   \o _valid_method_call_check_resources(user_values, "check",
                                                         resources, ord)
        unders == dual_unders(project_values, user_values, ord)
        all_keys == DOMAIN project_values \cup DOMAIN user_values
        keys_to_merge == keys_to_merge_of(project_values, user_values)
        merged_values == merged_values_of(project_values, user_values)
        \* project_values and user_values after the pops
        project_rest == [k \in DOMAIN project_values \ keys_to_merge |->
                            project_values[k]]
        user_rest == [k \in DOMAIN user_values \ keys_to_merge |->
                         user_values[k]]
        project_id == context_project_id
        project_quotas == projectQuotas
        q == _get_quotas(resources, all_keys, project_id, FALSE,
                         project_quotas, ord)
        uq == _get_quotas(resources, all_keys, project_id, TRUE,
                          project_quotas, ord)
        reads == <<"get_all_by_project">> \o q.reads \o uq.reads
        quotas == q.limits
        user_quotas == uq.limits
        merged_quotas == merged_quotas_of(quotas, user_quotas)
        merged_overs == merged_overs_of(merged_values, merged_quotas, ord)
        overs == split_overs(project_rest, user_rest, quotas, user_quotas, ord)
        quotas_exceeded ==
            IF split_over_user_quota(project_rest, user_rest, quotas, user_quotas)
            THEN user_quotas ELSE quotas
        raised ==
            IF invalid # <<>> THEN InvalidQuotaMethodUsage(Head(invalid))
            ELSE IF no_values(project_values, user_values) THEN Invalid
            ELSE IF unders # <<>> THEN InvalidQuotaValue(sorted(unders))
            ELSE IF q.unknown # <<>>
            THEN QuotaResourceUnknown(q.unknown, <<"get_all_by_project">>)
            ELSE IF merged_values # EmptyDict /\ merged_overs # <<>>
            THEN OverQuota(sorted(merged_overs), merged_quotas,
                           [k \in Range(merged_overs) |-> merged_quotas[k]],
                           reads)
            ELSE IF overs # <<>>
            THEN OverQuota(sorted(overs), quotas_exceeded,
                           [k \in Range(overs) |-> quotas_exceeded[k]], reads)
            ELSE Returned(reads)
        popped == raised.outcome \in {"QuotaResourceUnknown", "OverQuota", "ok"}
    IN  [raised EXCEPT
            !.project_values_after =
                IF popped /\ project_values_arg.given THEN project_rest
                ELSE project_values_arg.d,
            !.user_values_after =
                IF popped /\ user_values_arg.given THEN user_rest
                ELSE user_values_arg.d]

-----------------------------------------------------------------------------
(* The driver-level specification: calls of the DB driver *)

Idle == last.op = "none"

\* the stored limits and classes a deployment may hold
ClassConfigs ==
    {[ctx |-> None, class |-> EmptyDict, dflt |-> EmptyDict],
     [ctx |-> "gold", class |-> ("cores" :> 2), dflt |-> ("instances" :> 2)]}

\* what the project uses
Usages == {[n \in DOMAIN QUOTAS |-> 0],
           [n \in DOMAIN QUOTAS |-> IF n = "cores" THEN 18 ELSE 0]}

\* no other user of the project holds an override, the user uses nothing
NoGrants ==
    /\ otherUserQuotas = EmptyDict
    /\ userUsage = [n \in DOMAIN QUOTAS |-> 0]

\* QuotaEngine.__init__ without a driver override
FreshEngine ==
    /\ driver_override = None
    /\ engine_driver = None
    /\ engine_driver_name = None
    /\ engine_driver_id = 0
    /\ constructed = 0

\* the module's caches as the module is loaded
FreshGate ==
    /\ UID_QFD_POPULATED_CACHE_ALL = FALSE
    /\ UID_QFD_POPULATED_CACHE_BY_PROJECT = {}

\* the unified-limits backends hold nothing
NoBackend == [local_limits |-> EmptyDict, placement_default_limits |-> EmptyDict,
              placement_project_limits |-> EmptyDict,
              local_in_use |-> EmptyDict, placement_counts |-> EmptyDict]

\* nothing the calls of this specification do not look at
Elsewhere ==
    /\ unified = NoBackend
    /\ populated = {}
    /\ procs = <<>>

Init ==
    /\ projectQuotas \in Dicts({"cores", "instances"}, StoredProjectLimits, 2)
    /\ userQuotas \in Dicts({"cores", "instances"}, StoredUserLimits, 2)
    /\ \E c \in ClassConfigs :
          /\ ctxQuotaClass = c.ctx
          /\ classQuotas = c.class
          /\ defaultClass = c.dflt
    /\ usage \in Usages
    /\ CONF_driver = "nova.quota.DbQuotaDriver"
    /\ FreshEngine
    /\ FreshGate
    /\ NoGrants
    /\ Elsewhere
    /\ last = NoCall

\* DbQuotaDriver.limit_check(context, QUOTAS._resources, values)
LimitCheck ==
    /\ Idle
    /\ \E values \in Dicts(CheckNames, Values, MaxKeys), ord \in IterOrders :
          last' = [limit_check(QUOTAS, values, ord) EXCEPT
                      !.op = "limit_check", !.driver = "DbQuotaDriver",
                      !.values = values]
    /\ UNCHANGED <<dbvars, engvars, idvars, restvars>>

\* the arguments of limit_check_project_and_user: a dict or None each
DualArgs ==
    {a \in [p : {NotGiven} \cup {Given(d) : d \in Dicts(CheckNames, DualValues, MaxKeys)},
            u : {NotGiven} \cup {Given(d) : d \in Dicts(CheckNames, DualValues, MaxKeys)}] :
        Cardinality(DOMAIN a.p.d \cup DOMAIN a.u.d) <= MaxKeys}

\* DbQuotaDriver.limit_check_project_and_user(context, QUOTAS._resources, ...)
LimitCheckProjectAndUser ==
    /\ Idle
    /\ \E a \in DualArgs, ord \in IterOrders :
          last' = [limit_check_project_and_user(QUOTAS, a.p, a.u, ord) EXCEPT
                      !.op = "limit_check_project_and_user",
                      !.driver = "DbQuotaDriver",
                      !.project_values = a.p.d,
                      !.project_values_given = a.p.given,
                      !.user_values = a.u.d,
                      !.user_values_given = a.u.given]
    /\ UNCHANGED <<dbvars, engvars, idvars, restvars>>

\* the caller has looked at the outcome and goes on
Return ==
    /\ ~Idle
    /\ last' = NoCall
    /\ UNCHANGED <<dbvars, engvars, idvars, restvars>>

Next == LimitCheck \/ LimitCheckProjectAndUser \/ Return

Spec == Init /\ [][Next]_vars

-----------------------------------------------------------------------------
(* QuotaEngine: the facade in front of the configured driver *)

Drivers == {"nova.quota.DbQuotaDriver", "nova.quota.NoopQuotaDriver",
            "nova.quota.UnifiedLimitsDriver"}

\* a driver object handed to QuotaEngine.__init__ (tests only)
FakeDriver == "FakeDriver"

\* a resolution that never looks at the configuration again
_driver_memoised_forever ==
    IF driver_override # None THEN driver_override
    ELSE IF engine_driver = None THEN CONF_driver ELSE engine_driver

\* QuotaEngine._driver: the driver a call gets: the override if there is
\* one; else the cache, refreshed when the configured name is not the
\* cached one
_driver ==
    IF driver_override # None THEN driver_override
    ELSE IF engine_driver_name # CONF_driver THEN CONF_driver
    ELSE engine_driver

\* what reading QuotaEngine._driver leaves in the cache: a new instance of
\* the configured class when the configured name is not the cached one
ResolveDriver ==
    IF driver_override # None
    THEN UNCHANGED <<engine_driver, engine_driver_name, idvars>>
    ELSE IF engine_driver_name # CONF_driver
    THEN /\ engine_driver' = CONF_driver
         /\ engine_driver_name' = CONF_driver
         /\ constructed' = constructed + 1
         /\ engine_driver_id' = constructed + 1
    ELSE UNCHANGED <<engine_driver, engine_driver_name, idvars>>

\* NoopQuotaDriver.limit_check and limit_check_project_and_user (inherited
\* by UnifiedLimitsDriver): pass
noop_limit_check == Returned(<<>>)

\* the counting function of a countable resource, from the project's usage
count_of(resource) ==
    [n \in {"cores", "instances"} |-> usage[n]]

\* QuotaEngine.count_as_dict(context, resource)
count_as_dict(resources, resource) ==
    IF resource \notin DOMAIN resources \/ ~resources[resource].count_as_dict
    THEN QuotaResourceUnknown(<<resource>>, <<>>)
    ELSE [Returned(<<>>) EXCEPT !.count = count_of(resource)]

InitEngine ==
    /\ projectQuotas \in {EmptyDict, "cores" :> 2}
    /\ userQuotas = EmptyDict
    /\ ctxQuotaClass = None
    /\ classQuotas = EmptyDict
    /\ defaultClass = EmptyDict
    /\ usage \in Usages
    /\ CONF_driver \in Drivers
    /\ FreshEngine
    /\ FreshGate
    /\ NoGrants
    /\ Elsewhere
    /\ last = NoCall

\* QuotaEngine.limit_check(context, **values)
EngineLimitCheck ==
    /\ Idle
    /\ \E values \in Dicts(CheckNames, Values, MaxKeys), ord \in IterOrders :
          last' = [(IF _driver = "nova.quota.DbQuotaDriver"
                    THEN limit_check(QUOTAS, values, ord)
                    ELSE noop_limit_check) EXCEPT
                      !.op = "QuotaEngine.limit_check", !.driver = _driver,
                      !.values = values]
    /\ ResolveDriver
    /\ UNCHANGED <<dbvars, CONF_driver, restvars>>

\* QuotaEngine.limit_check_project_and_user(context, project_values, user_values)
EngineLimitCheckProjectAndUser ==
    /\ Idle
    /\ \E a \in DualArgs, ord \in IterOrders :
          last' = [(IF _driver = "nova.quota.DbQuotaDriver"
                    THEN limit_check_project_and_user(QUOTAS, a.p, a.u, ord)
                    ELSE [noop_limit_check EXCEPT
                             !.project_values_after = a.p.d,
                             !.user_values_after = a.u.d]) EXCEPT
                      !.op = "QuotaEngine.limit_check_project_and_user",
                      !.driver = _driver,
                      !.project_values = a.p.d,
                      !.project_values_given = a.p.given,
                      !.user_values = a.u.d,
                      !.user_values_given = a.u.given]
    /\ ResolveDriver
    /\ UNCHANGED <<dbvars, CONF_driver, restvars>>

\* QuotaEngine.count_as_dict(context, resource, project_id)
EngineCountAsDict ==
    /\ Idle
    /\ \E resource \in AllNames :
          last' = [count_as_dict(QUOTAS, resource) EXCEPT
                      !.op = "QuotaEngine.count_as_dict",
                      !.resource = resource]
    /\ UNCHANGED <<dbvars, engvars, idvars, restvars>>

NextEngine ==
    \/ EngineLimitCheck
    \/ EngineLimitCheckProjectAndUser
    \/ EngineCountAsDict
    \/ Return

SpecEngine == InitEngine /\ [][NextEngine]_vars

-----------------------------------------------------------------------------
(* What the claims speak of *)

\* a proposed value exceeds a concrete (non-negative) limit
Exceeds(limit, val) == limit >= 0 /\ limit < val

\* the limit of the project scope: the stored project override, else the
\* context's quota class, else the "default" class, else the configuration
ProjectScopeLimit(k) ==
    IF k \in DOMAIN projectQuotas THEN projectQuotas[k]
    ELSE IF ctxQuotaClass # None /\ k \in DOMAIN classQuotas THEN classQuotas[k]
    ELSE IF k \in DOMAIN defaultClass THEN defaultClass[k]
    ELSE IF QUOTAS[k].flag # None THEN CONF_quota[QUOTAS[k].flag]
    ELSE -1

\* the limit of the user scope: the stored user override, else the project's
UserScopeLimit(k) ==
    IF k \in DOMAIN userQuotas THEN userQuotas[k] ELSE ProjectScopeLimit(k)

\* seq lists the members of S once each, in ascending order of name
IsSortedListOf(seq, S) ==
    /\ Range(seq) = S
    /\ \A i, j \in 1..Len(seq) : i < j => Rank(seq[i]) < Rank(seq[j])

IsSingleCheck == last.op = "limit_check"
IsDualCheck == last.op = "limit_check_project_and_user"

NamesChecked ==
    DOMAIN last.values \cup DOMAIN last.project_values \cup DOMAIN last.user_values

NotCheckCapable ==
    {n \in NamesChecked :
        n \notin DOMAIN QUOTAS \/ QUOTAS[n].valid_method # "check"}

NegativeIn(d) == {k \in DOMAIN d : d[k] < 0}

NoValueSet == last.project_values = EmptyDict /\ last.user_values = EmptyDict

\* the call names only check-capable resources and proposes no negative value
PassesValidation ==
    /\ NotCheckCapable = {}
    /\ NegativeIn(last.values) = {}
    /\ NegativeIn(last.project_values) = {}
    /\ NegativeIn(last.user_values) = {}
    /\ IsDualCheck => ~NoValueSet

\* keys given in exactly one value-set, with their value; keys given in both
OneSetKeys ==
    (DOMAIN last.project_values \ DOMAIN last.user_values) \cup
    (DOMAIN last.user_values \ DOMAIN last.project_values)

OneSetValue(k) ==
    IF k \in DOMAIN last.project_values THEN last.project_values[k]
    ELSE last.user_values[k]

BothSetsKeys == DOMAIN last.project_values \cap DOMAIN last.user_values

\* the resources of limit_check's values that exceed a limit of either scope
ViolatedBy(values) ==
    {k \in DOMAIN values : \/ Exceeds(ProjectScopeLimit(k), values[k])
                           \/ Exceeds(UserScopeLimit(k), values[k])}

-----------------------------------------------------------------------------
(* C1 *)

\* C1: a limit_check that passes validation reports a resource in overs if and
\* only if its project-scope or its user-scope limit is non-negative and
\* smaller than the proposed value, and returns without error exactly when no
\* resource is violated; a resource Unlimited in both scopes is never reported.
C1_LimitCheckReportsExactlyViolated ==
    (IsSingleCheck /\ PassesValidation) =>
        /\ last.outcome \in {"ok", "OverQuota"}
        /\ Range(last.overs) = ViolatedBy(last.values)
        /\ (last.outcome = "ok") <=> (ViolatedBy(last.values) = {})
        /\ \A k \in DOMAIN last.values :
              (ProjectScopeLimit(k) < 0 /\ UserScopeLimit(k) < 0)
                  => k \notin Range(last.overs)

\* an OverQuota that leaves out a resource Unlimited in both scopes whose
\* proposed value is the largest
C1_Witness ==
    /\ IsSingleCheck
    /\ last.outcome = "OverQuota"
    /\ \E k \in DOMAIN last.values :
          /\ ProjectScopeLimit(k) < 0 /\ UserScopeLimit(k) < 0
          /\ last.values[k] = 23
          /\ k \notin Range(last.overs)

-----------------------------------------------------------------------------
(* C2 *)

\* C2: whenever limit_check raises OverQuota, the headroom of every violated
\* resource is min(project-scope limit, user-scope limit); stated here for
\* the resources whose two limits are both concrete.
C2_HeadroomIsMinOfBothScopes ==
    (IsSingleCheck /\ last.outcome = "OverQuota") =>
        \A k \in Range(last.overs) :
            (ProjectScopeLimit(k) >= 0 /\ UserScopeLimit(k) >= 0) =>
                last.headroom[k] =
                    MinOf({ProjectScopeLimit(k), UserScopeLimit(k)})

-----------------------------------------------------------------------------
(* C3 *)

\* project limit 20 for cores, no per-user override, project usage 18
C3_Scenario ==
    /\ IsSingleCheck
    /\ ProjectScopeLimit("cores") = 20
    /\ "cores" \notin DOMAIN userQuotas
    /\ usage["cores"] = 18

\* C3 as claimed: in the scenario, limit_check called with the delta cores=5
\* raises OverQuota with overs=['cores'] and headroom={'cores': 20}.
C3_DeltaOverUsageRaises ==
    (C3_Scenario /\ last.values = ("cores" :> 5)) =>
        /\ last.outcome = "OverQuota"
        /\ last.overs = <<"cores">>
        /\ last.headroom = ("cores" :> 20)

\* C3 as amended: limit_check compares the proposed value alone with the
\* limit; in the scenario cores=5 returns without error, and the total
\* cores=23 (usage 18 + delta 5) raises OverQuota with overs=['cores'] and
\* headroom={'cores': 20}.
C3_ValueAloneIsChecked ==
    /\ (C3_Scenario /\ last.values = ("cores" :> 5)) => last.outcome = "ok"
    /\ (C3_Scenario /\ last.values = ("cores" :> 23)) =>
          /\ last.outcome = "OverQuota"
          /\ last.overs = <<"cores">>
          /\ last.headroom = ("cores" :> 20)

C3_Witness ==
    /\ C3_Scenario
    /\ last.values = ("cores" :> 23)
    /\ last.outcome = "OverQuota"
    /\ last.headroom = ("cores" :> 20)

-----------------------------------------------------------------------------
(* C4 *)

\* C4: in limit_check_project_and_user that passes validation, OverQuota
\* naming a resource given in exactly one value-set is raised if and only if
\* its value exceeds a concrete limit of the project scope or of the user
\* scope (Unlimited being the least restrictive limit).
C4_OneSetKeyCheckedAgainstTighterLimit ==
    (IsDualCheck /\ PassesValidation) =>
        \A k \in OneSetKeys :
            (last.outcome = "OverQuota" /\ k \in Range(last.overs)) <=>
                \/ Exceeds(ProjectScopeLimit(k), OneSetValue(k))
                \/ Exceeds(UserScopeLimit(k), OneSetValue(k))

-----------------------------------------------------------------------------
(* C5 *)

\* the limits of the scopes resource k, given in both value-sets, violates
ScopesViolated(k) ==
    (IF Exceeds(ProjectScopeLimit(k), last.project_values[k])
     THEN {ProjectScopeLimit(k)} ELSE {}) \cup
    (IF Exceeds(UserScopeLimit(k), last.user_values[k])
     THEN {UserScopeLimit(k)} ELSE {})

\* C5: when limit_check_project_and_user raises OverQuota for resources given
\* in both value-sets, the headroom and the quotas entry of every violated
\* resource is the limit of a scope this resource violated.
C5_HeadroomIsLimitOfViolatedScope ==
    (/\ IsDualCheck
     /\ last.outcome = "OverQuota"
     /\ Range(last.overs) \subseteq BothSetsKeys) =>
        \A k \in Range(last.overs) :
            /\ last.headroom[k] \in ScopesViolated(k)
            /\ last.quotas[k] \in ScopesViolated(k)

-----------------------------------------------------------------------------
(* C6 *)

\* the requested resources whose proposed value exceeds a concrete limit
RequestedOverLimit ==
    IF IsSingleCheck THEN ViolatedBy(last.values)
    ELSE {k \in OneSetKeys :
             \/ Exceeds(ProjectScopeLimit(k), OneSetValue(k))
             \/ Exceeds(UserScopeLimit(k), OneSetValue(k))}
         \cup
         {k \in BothSetsKeys :
             \/ Exceeds(ProjectScopeLimit(k), last.project_values[k])
             \/ Exceeds(UserScopeLimit(k), last.user_values[k])}

\* C6: whenever limit_check or limit_check_project_and_user raises OverQuota,
\* overs is sorted ascending without duplicates and contains every requested
\* resource whose proposed value exceeds its concrete limit; stated here for
\* the calls none of whose resources is Unlimited in a scope.
C6_OversSortedAndComplete ==
    (/\ IsSingleCheck \/ IsDualCheck
     /\ last.outcome = "OverQuota"
     /\ \A k \in NamesChecked :
           ProjectScopeLimit(k) >= 0 /\ UserScopeLimit(k) >= 0) =>
        /\ IsSortedListOf(last.overs, Range(last.overs))
        /\ RequestedOverLimit \subseteq Range(last.overs)

-----------------------------------------------------------------------------
(* C7 *)

IsEngineCall ==
    last.op \in {"QuotaEngine.count_as_dict", "QuotaEngine.limit_check",
                 "QuotaEngine.limit_check_project_and_user"}

\* the names an engine call names that the registry does not hold
NamesAbsent ==
    (IF last.op = "QuotaEngine.count_as_dict" THEN {last.resource}
     ELSE NamesChecked) \ DOMAIN QUOTAS

\* C7: every QuotaEngine operation that names a resource absent from the
\* registry fails with QuotaResourceUnknown carrying the sorted list of the
\* absent names, raised by the engine before any driver is invoked.
C7_EngineRejectsUnknownNames ==
    (IsEngineCall /\ NamesAbsent # {}) =>
        /\ last.outcome = "QuotaResourceUnknown"
        /\ IsSortedListOf(last.unknown, NamesAbsent)
        /\ last.driver = None

-----------------------------------------------------------------------------
(* C8 *)

ValidationErrors ==
    {"InvalidQuotaMethodUsage", "QuotaResourceUnknown", "Invalid",
     "InvalidQuotaValue"}

AnyNegative ==
    NegativeIn(last.values) \cup NegativeIn(last.project_values)
        \cup NegativeIn(last.user_values) # {}

\* C8: in limit_check and limit_check_project_and_user a validation failure
\* is raised before any backend read and leaves the arguments as they were;
\* the method/kind check comes first, then (dual check) the missing
\* arguments, then the negative values.
C8_ValidationBeforeAnyRead ==
    (IsSingleCheck \/ IsDualCheck) =>
        /\ last.outcome \in ValidationErrors =>
              /\ last.reads = <<>>
              /\ last.project_values_after = last.project_values
              /\ last.user_values_after = last.user_values
        /\ NotCheckCapable # {} => last.outcome = "InvalidQuotaMethodUsage"
        /\ (NotCheckCapable = {} /\ IsDualCheck /\ NoValueSet) =>
              last.outcome = "Invalid"
        /\ (NotCheckCapable = {} /\ AnyNegative) =>
              last.outcome = "InvalidQuotaValue"
        /\ PassesValidation => last.outcome \notin ValidationErrors

\* a name that is not registered, proposed with a negative value
C8_Witness ==
    /\ IsDualCheck
    /\ \E k \in NotCheckCapable :
          k \in DOMAIN last.user_values /\ last.user_values[k] < 0
    /\ NegativeIn(last.project_values) # {}
    /\ last.outcome = "InvalidQuotaMethodUsage"
    /\ last.reads = <<>>

-----------------------------------------------------------------------------
(* C9 *)

\* C9: with every named resource check-capable and some proposed value
\* negative, the check raises InvalidQuotaValue carrying the sorted names of
\* the negative-valued resources (dual check: those of project_values if it
\* has any, otherwise those of user_values); a value of 0 is accepted.
C9_NegativeValuesRejected ==
    ((IsSingleCheck \/ IsDualCheck) /\ NotCheckCapable = {}) =>
        /\ AnyNegative =>
              /\ last.outcome = "InvalidQuotaValue"
              /\ IsSortedListOf(last.unders,
                    IF IsSingleCheck THEN NegativeIn(last.values)
                    ELSE IF NegativeIn(last.project_values) # {}
                    THEN NegativeIn(last.project_values)
                    ELSE NegativeIn(last.user_values))
        /\ ~AnyNegative => last.outcome # "InvalidQuotaValue"

\* two negative values in project_values and another in user_values
C9_Witness ==
    /\ IsDualCheck
    /\ Cardinality(NegativeIn(last.project_values)) = 2
    /\ NegativeIn(last.user_values) # {}
    /\ \E k \in DOMAIN last.user_values : last.user_values[k] = 0
    /\ last.outcome = "InvalidQuotaValue"
    /\ Len(last.unders) = 2

-----------------------------------------------------------------------------
(* C10 *)

\* C10: limit_check_project_and_user raises the missing-arguments error
\* exactly when project_values and user_values are both absent or empty.
C10_MissingArguments ==
    IsDualCheck => ((last.outcome = "Invalid") <=> NoValueSet)

\* project_values absent and user_values an empty dict
C10_Witness ==
    /\ IsDualCheck
    /\ ~last.project_values_given
    /\ last.user_values_given
    /\ last.user_values = EmptyDict
    /\ last.outcome = "Invalid"

-----------------------------------------------------------------------------
(* DbQuotaDriver.get_settable_quotas *)

\* the user of the context, and the other users of its project
context_user_id == "u1"
OtherUsers == {"u2", "u3"}

\* limits granted to the other users
GrantedLimits == {-1, 5, 12}

\* objects.Quotas.get_all(context, project_id): every per-user limit row the
\* project holds, the target user's own rows included
get_all ==
    {[user_id |-> context_user_id, resource |-> n, hard_limit |-> userQuotas[n]] :
        n \in DOMAIN userQuotas}
    \cup UNION {{[user_id |-> u, resource |-> n,
                  hard_limit |-> otherUserQuotas[u][n]] :
                    n \in DOMAIN otherUserQuotas[u]} :
                u \in DOMAIN otherUserQuotas}

\* the loop  modified_quotas[quota.resource]['remains'] -= quota.hard_limit
RECURSIVE subtract_all(_, _)
subtract_all(remains, rows) ==
    IF rows = {} THEN remains
    ELSE LET quota == CHOOSE q \in rows : TRUE
         IN  subtract_all(remains - quota.hard_limit, rows \ {quota})

\* DbQuotaDriver._get_usages: the count of each countable resource, of the
\* user when a user is named and of the project otherwise
_get_usages(resources, user_id) ==
    [n \in {n \in DOMAIN resources : resources[n].count_as_dict} |->
        [in_use |-> IF user_id # None THEN userUsage[n] ELSE usage[n]]]

\* DbQuotaDriver._process_quotas(usages=..., remains=...); the registry
\* holds countable resources, so usages is never empty
_process_quotas_remains(resources, project_id, quotas, quota_class, usages, remains) ==
    LET limits == _process_quotas(resources, project_id, quotas, quota_class)
    IN  [n \in DOMAIN resources |->
            [limit |-> limits[n],
             in_use |-> IF n \in DOMAIN usages THEN usages[n].in_use ELSE 0,
             remains |-> IF remains
                         THEN subtract_all(limits[n],
                                           {q \in get_all : q.resource = n})
                         ELSE None]]

\* a test that takes -1 alone for Unlimited
_is_unlimited_value_minus_one_only(v) == v = -1

\* DbQuotaDriver._is_unlimited_value
_is_unlimited_value(v) == v <= -1

\* DbQuotaDriver._sum_quota_values
_sum_quota_values(v1, v2) ==
    IF _is_unlimited_value(v1) \/ _is_unlimited_value(v2) THEN -1 ELSE v1 + v2

\* DbQuotaDriver._sub_quota_values
_sub_quota_values(v1, v2) ==
    IF _is_unlimited_value(v1) \/ _is_unlimited_value(v2) THEN -1 ELSE v1 - v2

max(a, b) == IF a >= b THEN a ELSE b

\* DbQuotaDriver.get_settable_quotas(context, resources, project_id, user_id)
\* for the context's project, and the context's user when one is named
get_settable_quotas(resources, project_id, user_id) ==
    LET db_proj_quotas == projectQuotas
        project_quotas ==
            _process_quotas_remains(resources, project_id, db_proj_quotas,
                                    None, _get_usages(resources, None), TRUE)
        setted_quotas == userQuotas
        user_quotas ==
            _process_quotas_remains(
                resources, project_id,
                [k \in DOMAIN setted_quotas \cup DOMAIN db_proj_quotas |->
                    IF k \in DOMAIN setted_quotas THEN setted_quotas[k]
                    ELSE db_proj_quotas[k]],
                None, _get_usages(resources, user_id), FALSE)
    IN  IF user_id # None
        THEN [key \in DOMAIN user_quotas |->
                [minimum |-> user_quotas[key].in_use,
                 maximum |-> _sum_quota_values(project_quotas[key].remains,
                                               Get(setted_quotas, key, 0))]]
        ELSE [key \in DOMAIN project_quotas |->
                [minimum |-> max(_sub_quota_values(project_quotas[key].limit,
                                                   project_quotas[key].remains),
                                 project_quotas[key].in_use),
                 maximum |-> -1]]

\* what the user counts, apart from the project's count
UserUsages == {[n \in DOMAIN QUOTAS |-> 0],
               [n \in DOMAIN QUOTAS |-> IF n = "cores" THEN 3 ELSE 0]}

InitSettable ==
    /\ projectQuotas \in Dicts({"cores"}, StoredProjectLimits, 1)
    /\ userQuotas \in Dicts({"cores"}, {-1, 5}, 1)
    /\ otherUserQuotas \in [OtherUsers -> Dicts({"cores"}, GrantedLimits, 1)]
    /\ \E c \in ClassConfigs :
          /\ ctxQuotaClass = c.ctx
          /\ classQuotas = c.class
          /\ defaultClass = c.dflt
    /\ usage \in Usages
    /\ userUsage \in UserUsages
    /\ CONF_driver = "nova.quota.DbQuotaDriver"
    /\ FreshEngine
    /\ FreshGate
    /\ Elsewhere
    /\ last = NoCall

\* DbQuotaDriver.get_settable_quotas(context, QUOTAS._resources, project_id,
\* user_id=...)
GetSettableQuotas ==
    /\ Idle
    /\ \E user_id \in {None, context_user_id} :
          last' = [Returned(<<>>) EXCEPT
                      !.op = "get_settable_quotas", !.driver = "DbQuotaDriver",
                      !.args = [user_id |-> user_id],
                      !.result = get_settable_quotas(QUOTAS, context_project_id,
                                                     user_id)]
    /\ UNCHANGED <<dbvars, engvars, idvars, restvars>>

NextSettable == GetSettableQuotas \/ Return

SpecSettable == InitSettable /\ [][NextSettable]_vars

\* the limit of the project for resource n, as the limit checks resolve it
ProjectLimit(n) == ProjectScopeLimit(n)

\* the per-user overrides granted in the project for resource n
Granted(n) == {q \in get_all : q.resource = n}

RECURSIVE SumOfLimits(_)
SumOfLimits(rows) ==
    IF rows = {} THEN 0
    ELSE LET q == CHOOSE q \in rows : TRUE
         IN  q.hard_limit + SumOfLimits(rows \ {q})

IsSettableForUser ==
    last.op = "get_settable_quotas" /\ last.args.user_id # None

IsSettableForProject ==
    last.op = "get_settable_quotas" /\ last.args.user_id = None

\* remains as the claim defines it: L - R, Unlimited if L or a grant is
Remains(n) ==
    IF ProjectLimit(n) <= -1 \/ \E q \in Granted(n) : q.hard_limit <= -1
    THEN -1
    ELSE ProjectLimit(n) - SumOfLimits(Granted(n))

\* the grants of resource n do not exceed a concrete project limit
WithinLimit(n) ==
    ProjectLimit(n) >= 0 =>
        SumOfLimits({q \in Granted(n) : q.hard_limit >= 0}) <= ProjectLimit(n)

\* C11: get_settable_quotas for a target user reports, for every resource,
\* minimum = the user's usage and maximum = remains + U, where remains is
\* L - R, or Unlimited when L or any granted override is Unlimited, and U is
\* the user's own override (0 if none); an Unlimited remains or U makes the
\* maximum Unlimited.  Stated for projects whose grants do not exceed the
\* project limit.
C11_SettableRangeOfUser ==
    IsSettableForUser =>
        \A n \in DOMAIN QUOTAS :
            WithinLimit(n) =>
                /\ last.result[n].minimum = userUsage[n]
                /\ last.result[n].maximum =
                      (IF Remains(n) = -1 \/ Get(userQuotas, n, 0) <= -1
                       THEN -1
                       ELSE Remains(n) + Get(userQuotas, n, 0))

\* C12: get_settable_quotas without a target user reports, for every
\* resource, minimum = max(L - remains, project usage) and maximum = -1,
\* remains being L minus the per-user overrides granted.  Stated for
\* concrete project limits and concrete grants.
C12_SettableRangeOfProject ==
    IsSettableForProject =>
        \A n \in DOMAIN QUOTAS :
            (ProjectLimit(n) >= 0 /\ \A q \in Granted(n) : q.hard_limit >= 0) =>
                /\ last.result[n].maximum = -1
                /\ last.result[n].minimum =
                      max(ProjectLimit(n)
                            - (ProjectLimit(n) - SumOfLimits(Granted(n))),
                          usage[n])

-----------------------------------------------------------------------------
(* QuotaEngine: driver resolution, one caller at a time *)

\* the number of driver constructions the model follows
MaxConstructed == 4

\* get_reserved of each driver class; what a driver handed in at
\* construction answers is its own business
get_reserved(driver) ==
    CASE driver = "nova.quota.DbQuotaDriver" -> 0
      [] driver = "nova.quota.NoopQuotaDriver" -> -1
      [] driver = "nova.quota.UnifiedLimitsDriver" -> 0
      [] OTHER -> None

\* QuotaEngine(quota_driver=...) with the registry of QUOTAS
InitResolve ==
    /\ projectQuotas = EmptyDict
    /\ userQuotas = EmptyDict
    /\ ctxQuotaClass = None
    /\ classQuotas = EmptyDict
    /\ defaultClass = EmptyDict
    /\ usage \in Usages
    /\ CONF_driver \in Drivers
    /\ driver_override \in {None, FakeDriver}
    /\ engine_driver = None
    /\ engine_driver_name = None
    /\ engine_driver_id = 0
    /\ constructed = 0
    /\ FreshGate
    /\ NoGrants
    /\ Elsewhere
    /\ last = NoCall

\* the operator (or a test) sets CONF.quota.driver to another class
SetDriverConfig ==
    /\ constructed < MaxConstructed
    /\ \E d \in Drivers \ {CONF_driver} : CONF_driver' = d
    /\ UNCHANGED <<dbvars, engine_driver, engine_driver_name, idvars, restvars, last>>

\* QuotaEngine.get_reserved()
EngineGetReserved ==
    /\ Idle
    /\ last' = [Returned(<<>>) EXCEPT
                   !.op = "QuotaEngine.get_reserved", !.driver = _driver,
                   !.result = get_reserved(_driver)]
    /\ ResolveDriver
    /\ UNCHANGED <<dbvars, CONF_driver, restvars>>

NextResolve == SetDriverConfig \/ EngineGetReserved \/ Return

SpecResolve == InitResolve /\ [][NextResolve]_vars

\* C13: one caller at a time, a call through QuotaEngine._driver uses the
\* override when one was given at construction, whatever the configuration
\* says, and leaves the cache alone; otherwise it uses a driver of the class
\* the configuration names now, constructing a new instance (with an
\* identity no earlier instance had) exactly when the configured name
\* differs from the name last resolved, and reusing the cached instance when
\* it does not.
C13_DriverFollowsConfiguration ==
    [][(Idle /\ last'.op = "QuotaEngine.get_reserved") =>
          IF driver_override # None
          THEN /\ last'.driver = driver_override
               /\ UNCHANGED <<engine_driver, engine_driver_name, idvars>>
          ELSE /\ last'.driver = CONF_driver
               /\ engine_driver' = CONF_driver
               /\ engine_driver_name' = CONF_driver
               /\ IF engine_driver_name # CONF_driver
                  THEN /\ constructed' = constructed + 1
                       /\ engine_driver_id' = constructed'
                       /\ engine_driver_id' # engine_driver_id
                  ELSE UNCHANGED idvars]_vars

\* the third instance constructed serves a call: the configuration changed
\* twice between calls, and the call got the class now configured
C13_Witness ==
    /\ last.op = "QuotaEngine.get_reserved"
    /\ driver_override = None
    /\ constructed = 3
    /\ engine_driver_id = 3
    /\ last.driver = CONF_driver

-----------------------------------------------------------------------------
(* QuotaEngine.__init__: the registry *)

\* the longest list of resources handed to the constructor
MaxDescriptors == 3

\* AbsoluteResource(name, flag=name) and CountableResource(name, f, flag=name)
Descriptors ==
    {[name |-> n, resource |-> Resource("check", c, n)] :
        n \in {"cores", "instances"}, c \in BOOLEAN}

DescriptorLists ==
    UNION {[1..k -> Descriptors] : k \in 0..MaxDescriptors}

\* {resource.name: resource for resource in resources}: a later resource
\* replaces an earlier one of the same name
RECURSIVE registry_of(_)
registry_of(resources) ==
    IF resources = <<>> THEN EmptyDict
    ELSE LET n == Len(resources)
         IN  (resources[n].name :> resources[n].resource)
                @@ registry_of(SubSeq(resources, 1, n - 1))

\* QuotaEngine(quota_driver=..., resources=...)
ConstructEngine ==
    /\ Idle
    /\ \E quota_driver \in {None, FakeDriver}, resources \in DescriptorLists :
          /\ last' = [Returned(<<>>) EXCEPT
                         !.op = "QuotaEngine.__init__",
                         !.args = [resources |-> resources],
                         !.result = registry_of(resources)]
          /\ driver_override' = quota_driver
    /\ engine_driver' = None
    /\ engine_driver_name' = None
    /\ UNCHANGED <<dbvars, CONF_driver, idvars, otherUserQuotas, userUsage,
                   unified, populated, gatevars, procs>>

NextRegistry == ConstructEngine \/ Return

SpecRegistry == InitResolve /\ [][NextRegistry]_vars

\* two different resources handed to the constructor have the same name
HasDuplicateName(resources) ==
    \E i, j \in 1..Len(resources) :
        /\ i # j
        /\ resources[i].name = resources[j].name
        /\ resources[i].resource # resources[j].resource

\* C14: a QuotaEngine constructed from resources of which two share a name
\* is rejected at construction: the constructor does not return an engine.
C14_DuplicateNamesRejected ==
    (last.op = "QuotaEngine.__init__" /\ HasDuplicateName(last.args.resources))
        => last.outcome # "ok"

-----------------------------------------------------------------------------
(* NoopQuotaDriver *)

\* NoopQuotaDriver.get_defaults
NoopQuotaDriver_get_defaults(resources) == [n \in DOMAIN resources |-> -1]

\* NoopQuotaDriver.get_class_quotas
NoopQuotaDriver_get_class_quotas(resources, quota_class) ==
    [n \in DOMAIN resources |-> -1]

\* NoopQuotaDriver._get_noop_quotas: a dict with 'limit', and 'in_use' and
\* 'remains' when asked for, all -1
_get_noop_quotas(resources, usages, remains) ==
    [n \in DOMAIN resources |->
        [f \in {"limit"} \cup (IF usages THEN {"in_use"} ELSE {})
                         \cup (IF remains THEN {"remains"} ELSE {}) |-> -1]]

\* NoopQuotaDriver.get_user_quotas
NoopQuotaDriver_get_user_quotas(resources, project_id, user_id, quota_class, usages) ==
    _get_noop_quotas(resources, usages, FALSE)

\* NoopQuotaDriver.get_project_quotas
NoopQuotaDriver_get_project_quotas(resources, project_id, quota_class, usages, remains) ==
    _get_noop_quotas(resources, usages, remains)

\* NoopQuotaDriver.get_settable_quotas
NoopQuotaDriver_get_settable_quotas(resources, project_id, user_id) ==
    [n \in DOMAIN resources |-> [minimum |-> 0, maximum |-> -1]]

\* a limit_check that validates its values as the DB driver's does
NoopQuotaDriver_limit_check_validating(resources, values, ord) ==
    IF unders_of(values, ord) # <<>>
    THEN InvalidQuotaValue(sorted(unders_of(values, ord)))
    ELSE Returned(<<>>)

\* NoopQuotaDriver.limit_check: pass
NoopQuotaDriver_limit_check(resources, values, ord) == noop_limit_check

\* NoopQuotaDriver.limit_check_project_and_user: pass
NoopQuotaDriver_limit_check_project_and_user(resources, project_values, user_values) ==
    [noop_limit_check EXCEPT !.project_values_after = project_values.d,
                             !.user_values_after = user_values.d]

\* the registries a driver is handed: the one of QUOTAS and those of the
\* constructor's lists
Registries == {QUOTAS} \cup {registry_of(l) : l \in DescriptorLists}

ProjectIds == {"p1", "p2"}
QuotaClasses == {None, "gold"}
UserIds == {None, "u1"}

InitNoop ==
    /\ projectQuotas \in Dicts({"cores"}, StoredProjectLimits, 1)
    /\ userQuotas = EmptyDict
    /\ ctxQuotaClass = None
    /\ classQuotas = EmptyDict
    /\ defaultClass = EmptyDict
    /\ usage \in Usages
    /\ CONF_driver = "nova.quota.NoopQuotaDriver"
    /\ FreshEngine
    /\ FreshGate
    /\ NoGrants
    /\ Elsewhere
    /\ last = NoCall

\* the frame of a call of a driver method: only the outcome changes
OnlyLast == UNCHANGED <<dbvars, engvars, idvars, restvars>>

NoopCall(op, args, result) ==
    [Returned(<<>>) EXCEPT !.op = op, !.driver = "NoopQuotaDriver",
                           !.args = args, !.result = result]

NoopGetReserved ==
    /\ Idle
    /\ last' = NoopCall("get_reserved", EmptyDict,
                        get_reserved("nova.quota.NoopQuotaDriver"))
    /\ OnlyLast

NoopGetDefaults ==
    /\ Idle
    /\ \E resources \in Registries :
          last' = NoopCall("get_defaults", [resources |-> resources],
                           NoopQuotaDriver_get_defaults(resources))
    /\ OnlyLast

NoopGetClassQuotas ==
    /\ Idle
    /\ \E resources \in Registries, quota_class \in QuotaClasses :
          last' = NoopCall("get_class_quotas",
                           [resources |-> resources, quota_class |-> quota_class],
                           NoopQuotaDriver_get_class_quotas(resources, quota_class))
    /\ OnlyLast

NoopGetUserQuotas ==
    /\ Idle
    /\ \E resources \in Registries, project_id \in ProjectIds,
          quota_class \in QuotaClasses, usages \in BOOLEAN :
          last' = NoopCall("get_user_quotas",
                           [resources |-> resources, project_id |-> project_id,
                            user_id |-> context_user_id,
                            quota_class |-> quota_class, usages |-> usages],
                           NoopQuotaDriver_get_user_quotas(
                               resources, project_id, context_user_id,
                               quota_class, usages))
    /\ OnlyLast

NoopGetProjectQuotas ==
    /\ Idle
    /\ \E resources \in Registries, project_id \in ProjectIds,
          quota_class \in QuotaClasses, usages \in BOOLEAN,
          remains \in BOOLEAN :
          last' = NoopCall("get_project_quotas",
                           [resources |-> resources, project_id |-> project_id,
                            quota_class |-> quota_class, usages |-> usages,
                            remains |-> remains],
                           NoopQuotaDriver_get_project_quotas(
                               resources, project_id, quota_class, usages,
                               remains))
    /\ OnlyLast

NoopGetSettableQuotas ==
    /\ Idle
    /\ \E resources \in Registries, project_id \in ProjectIds,
          user_id \in UserIds :
          last' = NoopCall("get_settable_quotas",
                           [resources |-> resources, project_id |-> project_id,
                            user_id |-> user_id],
                           NoopQuotaDriver_get_settable_quotas(
                               resources, project_id, user_id))
    /\ OnlyLast

NoopLimitCheck ==
    /\ Idle
    /\ \E resources \in Registries,
          values \in Dicts(CheckNames, Values, MaxKeys), ord \in IterOrders :
          last' = [NoopQuotaDriver_limit_check(resources, values, ord) EXCEPT
                      !.op = "limit_check", !.driver = "NoopQuotaDriver",
                      !.args = [resources |-> resources],
                      !.values = values]
    /\ OnlyLast

NoopLimitCheckProjectAndUser ==
    /\ Idle
    /\ \E resources \in Registries, a \in DualArgs :
          last' = [NoopQuotaDriver_limit_check_project_and_user(
                       resources, a.p, a.u) EXCEPT
                      !.op = "limit_check_project_and_user",
                      !.driver = "NoopQuotaDriver",
                      !.args = [resources |-> resources],
                      !.project_values = a.p.d,
                      !.project_values_given = a.p.given,
                      !.user_values = a.u.d,
                      !.user_values_given = a.u.given]
    /\ OnlyLast

NextNoop ==
    \/ NoopGetReserved
    \/ NoopGetDefaults
    \/ NoopGetClassQuotas
    \/ NoopGetUserQuotas
    \/ NoopGetProjectQuotas
    \/ NoopGetSettableQuotas
    \/ NoopLimitCheck
    \/ NoopLimitCheckProjectAndUser
    \/ Return

SpecNoop == InitNoop /\ [][NextNoop]_vars

IsNoopCall(op) == last.driver = "NoopQuotaDriver" /\ last.op = op

-----------------------------------------------------------------------------
(* UnifiedLimitsDriver *)

\* NotImplementedError("quota_class") and NotImplementedError("remains")
NotImplementedError(what) ==
    [NoCall EXCEPT !.outcome = "NotImplementedError", !.res = what]

\* a limit that asks the local limits first
unified_limit_local_first(name, placement_limits, local_limits) ==
    IF name \in DOMAIN local_limits THEN local_limits[name]
    ELSE Get(placement_limits, name, -1)

\* the limit of one resource: the placement limit, else the local limit,
\* else -1
unified_limit(name, placement_limits, local_limits) ==
    IF name \in DOMAIN placement_limits THEN placement_limits[name]
    ELSE Get(local_limits, name, -1)

\* the usage of one resource: 0, overridden by the local count, overridden
\* by the placement count
unified_in_use(name, local_in_use, p_in_use) ==
    IF name \in DOMAIN p_in_use THEN p_in_use[name]
    ELSE IF name \in DOMAIN local_in_use THEN local_in_use[name]
    ELSE 0

\* a get_project_quotas that takes no notice of remains
UnifiedLimitsDriver_get_project_quotas_remains_ignored(resources, project_id, quota_class, usages, remains) ==
    IF quota_class # None THEN NotImplementedError("quota_class")
    ELSE [Returned(<<"local_limit.get_legacy_default_limits",
                     "placement_limit.get_legacy_project_limits">>) EXCEPT
             !.result = [n \in DOMAIN resources |->
                            [f \in {"limit"} |->
                                unified_limit(n,
                                    unified.placement_project_limits[project_id],
                                    unified.local_limits)]]]

\* UnifiedLimitsDriver.get_project_quotas
UnifiedLimitsDriver_get_project_quotas(resources, project_id, quota_class, usages, remains) ==
    IF quota_class # None THEN NotImplementedError("quota_class")
    ELSE IF remains THEN NotImplementedError("remains")
    ELSE LET local_limits == unified.local_limits
             placement_limits == unified.placement_project_limits[project_id]
             local_in_use == unified.local_in_use[project_id]
             p_in_use == unified.placement_counts[project_id]
         IN  [Returned(<<"local_limit.get_legacy_default_limits",
                         "placement_limit.get_legacy_project_limits">>
                       \o (IF usages
                           THEN <<"local_limit.get_in_use",
                                  "placement_limit.get_legacy_counts">>
                           ELSE <<>>)) EXCEPT
                 !.result =
                    [n \in DOMAIN resources |->
                        [f \in {"limit"} \cup (IF usages THEN {"in_use"} ELSE {}) |->
                            IF f = "limit"
                            THEN unified_limit(n, placement_limits, local_limits)
                            ELSE unified_in_use(n, local_in_use, p_in_use)]]]

\* UnifiedLimitsDriver.get_user_quotas
UnifiedLimitsDriver_get_user_quotas(resources, project_id, user_id, quota_class, usages) ==
    UnifiedLimitsDriver_get_project_quotas(resources, project_id, quota_class,
                                           usages, FALSE)

\* what the limits and usage backends may hold
Backends ==
    {[local_limits |-> ll, placement_default_limits |-> pd,
      placement_project_limits |-> pl, local_in_use |-> li,
      placement_counts |-> pc] :
        ll \in {EmptyDict, "fixed_ips" :> 10},
        pd \in {("cores" :> 0) @@ ("instances" :> 0)},
        pl \in {[p \in ProjectIds |-> ("cores" :> 0) @@ ("instances" :> 0)],
                ("p1" :> (("cores" :> 8) @@ ("instances" :> 4)))
                    @@ ("p2" :> (("cores" :> 16) @@ ("instances" :> 0)))},
        li \in {[p \in ProjectIds |-> EmptyDict],
                ("p1" :> ("fixed_ips" :> 1)) @@ ("p2" :> ("cores" :> 9))},
        pc \in {[p \in ProjectIds |-> EmptyDict],
                ("p1" :> ("cores" :> 3)) @@ ("p2" :> ("cores" :> 7))}}

InitUnified ==
    /\ projectQuotas = EmptyDict
    /\ userQuotas = EmptyDict
    /\ ctxQuotaClass = None
    /\ classQuotas = EmptyDict
    /\ defaultClass = EmptyDict
    /\ usage = [n \in DOMAIN QUOTAS |-> 0]
    /\ CONF_driver = "nova.quota.UnifiedLimitsDriver"
    /\ FreshEngine
    /\ FreshGate
    /\ NoGrants
    /\ unified \in Backends
    /\ populated = {}
    /\ procs = <<>>
    /\ last = NoCall

UnifiedGetProjectQuotas ==
    /\ Idle
    /\ \E project_id \in ProjectIds, quota_class \in QuotaClasses,
          usages \in BOOLEAN, remains \in BOOLEAN :
          last' = [UnifiedLimitsDriver_get_project_quotas(
                       QUOTAS, project_id, quota_class, usages, remains) EXCEPT
                      !.op = "get_project_quotas",
                      !.driver = "UnifiedLimitsDriver",
                      !.args = [project_id |-> project_id,
                                quota_class |-> quota_class,
                                usages |-> usages, remains |-> remains]]
    /\ OnlyLast

UnifiedGetUserQuotas ==
    /\ Idle
    /\ \E project_id \in ProjectIds, user_id \in {"u1", "u2"},
          quota_class \in QuotaClasses, usages \in BOOLEAN :
          last' = [UnifiedLimitsDriver_get_user_quotas(
                       QUOTAS, project_id, user_id, quota_class, usages) EXCEPT
                      !.op = "get_user_quotas",
                      !.driver = "UnifiedLimitsDriver",
                      !.args = [project_id |-> project_id, user_id |-> user_id,
                                quota_class |-> quota_class,
                                usages |-> usages]]
    /\ OnlyLast

NextUnified == UnifiedGetProjectQuotas \/ UnifiedGetUserQuotas \/ Return

SpecUnified == InitUnified /\ [][NextUnified]_vars

IsUnifiedCall(op) == last.driver = "UnifiedLimitsDriver" /\ last.op = op

\* C16: UnifiedLimitsDriver.get_project_quotas raises NotImplementedError
\* exactly when quota_class is given or remains is asked for, and then
\* without having queried a limits or usage backend; get_user_quotas gives,
\* whoever the user is, the outcome get_project_quotas gives for the same
\* project, quota class and usages, and so fails exactly when quota_class
\* is given.
C16_UnifiedProjectAndUserQuotas ==
    /\ IsUnifiedCall("get_project_quotas") =>
          /\ (last.outcome = "NotImplementedError")
                <=> (last.args.quota_class # None \/ last.args.remains)
          /\ last.outcome = "NotImplementedError" => last.reads = <<>>
          /\ last.outcome # "NotImplementedError" => last.outcome = "ok"
    /\ IsUnifiedCall("get_user_quotas") =>
          LET same == UnifiedLimitsDriver_get_project_quotas(
                          QUOTAS, last.args.project_id, last.args.quota_class,
                          last.args.usages, FALSE)
          IN  /\ last.outcome = same.outcome
              /\ last.res = same.res
              /\ last.result = same.result
              /\ last.reads = same.reads
              /\ (last.outcome = "NotImplementedError")
                    <=> (last.args.quota_class # None)

\* get_project_quotas asked for remains, without a quota class
C16_Witness ==
    /\ IsUnifiedCall("get_project_quotas")
    /\ last.args.quota_class = None
    /\ last.args.remains
    /\ last.outcome = "NotImplementedError"
    /\ last.res = "remains"

-----------------------------------------------------------------------------
(* Two concurrent requests: count, limit_check, create *)

Requests == {1, 2}

\* what one request adds to the usage of 'cores'
Deltas == {1, 2, 5}

\* a request that has not started: it is about to add delta cores
NewRequest(delta) ==
    [pc |-> "start", delta |-> delta, snapshot |-> 0, passed |-> FALSE]

InitRace ==
    /\ projectQuotas \in Dicts({"cores"}, StoredProjectLimits, 1)
    /\ userQuotas = EmptyDict
    /\ ctxQuotaClass = None
    /\ classQuotas = EmptyDict
    /\ defaultClass = EmptyDict
    /\ usage \in Usages
    /\ CONF_driver = "nova.quota.DbQuotaDriver"
    /\ FreshEngine
    /\ FreshGate
    /\ NoGrants
    /\ unified = NoBackend
    /\ populated = {}
    /\ procs \in [Requests -> {NewRequest(d) : d \in Deltas}]
    /\ last = NoCall

\* the frame of a step of a request that writes nothing but its own locals
OnlyProcs ==
    UNCHANGED <<dbvars, engvars, idvars, otherUserQuotas, userUsage,
                driver_override, unified, populated, gatevars>>

\* the request counts the usage: QUOTAS.count_as_dict(context, 'cores', ...)
RequestCount(r) ==
    /\ procs[r].pc = "start"
    /\ procs' = [procs EXCEPT
                    ![r].pc = "counted",
                    ![r].snapshot = count_as_dict(QUOTAS, "cores").count["cores"]]
    /\ UNCHANGED last
    /\ OnlyProcs

\* the request runs limit_check with the total it is about to reach; the
\* call reads limits and writes nothing (get_reserved: nothing is reserved)
RequestLimitCheck(r) ==
    /\ procs[r].pc = "counted"
    /\ \E ord \in IterOrders :
          LET values == "cores" :> (procs[r].snapshot + procs[r].delta)
              call == limit_check(QUOTAS, values, ord)
          IN  /\ last' = [call EXCEPT !.op = "limit_check",
                                      !.driver = "DbQuotaDriver",
                                      !.values = values]
              /\ procs' = [procs EXCEPT
                              ![r].pc = IF call.outcome = "ok" THEN "checked"
                                        ELSE "rejected",
                              ![r].passed = (call.outcome = "ok")]
    /\ OnlyProcs

\* the request creates its resource: the next count sees delta more
RequestCreate(r) ==
    /\ procs[r].pc = "checked"
    /\ usage' = [usage EXCEPT !["cores"] = @ + procs[r].delta]
    /\ procs' = [procs EXCEPT ![r].pc = "done"]
    /\ UNCHANGED <<projectQuotas, userQuotas, classQuotas, defaultClass,
                   ctxQuotaClass, engvars, idvars, otherUserQuotas, userUsage,
                   driver_override, unified, populated, gatevars, last>>

NextRace ==
    \E r \in Requests :
        RequestCount(r) \/ RequestLimitCheck(r) \/ RequestCreate(r)

SpecRace == InitRace /\ [][NextRace]_vars

\* C17: a limit_check step of a request changes neither the stored limits
\* nor the usage and holds nothing back for the request: it passes exactly
\* on the comparison of the proposed total with the limit as it is read,
\* whatever the other request is doing; so both requests can pass and the
\* usage they create together can exceed the limit (the witness).
C17_LimitCheckReservesNothing ==
    /\ [][\A r \in Requests :
            (procs[r].pc = "counted" /\ procs'[r].pc # "counted") =>
                /\ UNCHANGED <<dbvars, otherUserQuotas, userUsage>>
                /\ procs'[r].passed
                      <=> ~Exceeds(ProjectScopeLimit("cores"),
                                   procs[r].snapshot + procs[r].delta)
                /\ \A o \in Requests \ {r} : procs'[o] = procs[o]]_vars
    /\ [](\A r \in Requests :
            procs[r].pc \in {"checked", "done"} =>
                ~Exceeds(ProjectScopeLimit("cores"),
                         procs[r].snapshot + procs[r].delta))

\* both requests passed their check and created their resource, and the
\* usage is above the concrete limit
C17_Witness ==
    /\ \A r \in Requests : procs[r].pc = "done" /\ procs[r].passed
    /\ ProjectScopeLimit("cores") >= 0
    /\ usage["cores"] > ProjectScopeLimit("cores")

-----------------------------------------------------------------------------
(* The migration gate: is_qfd_populated and _instances_cores_ram_count *)

\* the projects that own instance mappings
GateProjects == {"p1", "p2"}

\* an existence check that is content with any migrated project
_user_id_queued_for_delete_populated_anywhere(project_id) ==
    IF project_id # None THEN populated # {}
    ELSE populated = GateProjects

\* _user_id_queued_for_delete_populated(context, project_id): no unmigrated
\* record exists, in the project when one is named and anywhere otherwise
_user_id_queued_for_delete_populated(project_id) ==
    IF project_id # None THEN project_id \in populated
    ELSE populated = GateProjects

\* a per-project test that does not look at the global flag
count_must_query_by_project_only(cache_all, cache_by_project, project_id) ==
    project_id \notin cache_by_project

\* is_qfd_populated:  if not UID_QFD_POPULATED_CACHE_ALL
is_qfd_must_query(cache_all) == ~cache_all

\* _instances_cores_ram_count:  if (not UID_QFD_POPULATED_CACHE_ALL and
\*     project_id not in UID_QFD_POPULATED_CACHE_BY_PROJECT)
count_must_query(cache_all, cache_by_project, project_id) ==
    ~cache_all /\ project_id \notin cache_by_project

\* a counting path that does not wait for the migration gate
count_path_ungated(count_usage_from_placement, uid_qfd_populated) ==
    IF count_usage_from_placement
    THEN "_instances_cores_ram_count_api_db_placement"
    ELSE "_instances_cores_ram_count_legacy"

\* the counting path _instances_cores_ram_count takes
count_path(count_usage_from_placement, uid_qfd_populated) ==
    IF count_usage_from_placement /\ uid_qfd_populated
    THEN "_instances_cores_ram_count_api_db_placement"
    ELSE "_instances_cores_ram_count_legacy"

QueryRead == <<"_user_id_queued_for_delete_populated">>

InitGate ==
    /\ projectQuotas = EmptyDict
    /\ userQuotas = EmptyDict
    /\ ctxQuotaClass = None
    /\ classQuotas = EmptyDict
    /\ defaultClass = EmptyDict
    /\ usage = [n \in DOMAIN QUOTAS |-> 0]
    /\ CONF_driver = "nova.quota.DbQuotaDriver"
    /\ FreshEngine
    /\ FreshGate
    /\ NoGrants
    /\ unified = NoBackend
    /\ populated \in SUBSET GateProjects
    /\ procs = <<>>
    /\ last = NoCall

\* the data migration completes for one more project
MigrationProgress ==
    /\ \E p \in GateProjects \ populated : populated' = populated \cup {p}
    /\ UNCHANGED <<dbvars, engvars, idvars, otherUserQuotas, userUsage,
                   driver_override, unified, gatevars, procs, last>>

\* a record that fails the check appears in a project
RecordsRegress ==
    /\ \E p \in populated : populated' = populated \ {p}
    /\ UNCHANGED <<dbvars, engvars, idvars, otherUserQuotas, userUsage,
                   driver_override, unified, gatevars, procs, last>>

\* is_qfd_populated(context), one caller at a time
IsQfdPopulated ==
    /\ Idle
    /\ LET query == is_qfd_must_query(UID_QFD_POPULATED_CACHE_ALL)
           value == IF query THEN _user_id_queued_for_delete_populated(None)
                    ELSE UID_QFD_POPULATED_CACHE_ALL
       IN  /\ UID_QFD_POPULATED_CACHE_ALL' = value
           /\ last' = [Returned(IF query THEN QueryRead ELSE <<>>) EXCEPT
                          !.op = "is_qfd_populated",
                          !.args = [project_id |-> None],
                          !.result = value]
    /\ UNCHANGED <<dbvars, engvars, idvars, otherUserQuotas, userUsage,
                   driver_override, unified, populated,
                   UID_QFD_POPULATED_CACHE_BY_PROJECT, procs>>

\* the cells a legacy count is scattered to
Cells == {"cell1", "cell2", "cell3"}

CountedResources == {"instances", "cores", "ram"}

\* InstanceList.get_counts of one cell: {'project': {...}, 'user': {...}}
CellCounts(project, user) ==
    [sentinel |-> None,
     project |-> [r \in CountedResources |-> project[r]],
     user |-> [r \in CountedResources |-> user[r]]]

\* what scatter_gather_cells holds for one cell: the cell's counts, or
\* did_not_respond_sentinel, or the exception the cell raised
CellAnswers ==
    {[sentinel |-> "did_not_respond_sentinel"], [sentinel |-> "Exception"],
     CellCounts(("instances" :> 1) @@ ("cores" :> 2) @@ ("ram" :> 512),
                ("instances" :> 1) @@ ("cores" :> 2) @@ ("ram" :> 512)),
     CellCounts(("instances" :> 2) @@ ("cores" :> 8) @@ ("ram" :> 1024),
                ("instances" :> 0) @@ ("cores" :> 0) @@ ("ram" :> 0))}

\* a failure test that knows the timeout sentinel only
is_cell_failure_sentinel_timeout_only(result) ==
    result.sentinel = "did_not_respond_sentinel"

\* nova_context.is_cell_failure_sentinel
is_cell_failure_sentinel(result) ==
    result.sentinel \in {"did_not_respond_sentinel", "Exception"}

\* result['project'] of something that is not a dict of counts
TypeError == [NoCall EXCEPT !.outcome = "TypeError"]

\* total_counts[scope][resource] += count, over the cells in `cells`
RECURSIVE sum_cells(_, _, _, _)
sum_cells(cells, results, scope, resource) ==
    IF cells = {} THEN 0
    ELSE LET c == CHOOSE c \in cells : TRUE
         IN  results[c][scope][resource]
                + sum_cells(cells \ {c}, results, scope, resource)

\* _instances_cores_ram_count_legacy, from what the scatter/gather returned
_instances_cores_ram_count_legacy(results, user_id) ==
    LET answered == {c \in DOMAIN results :
                        ~is_cell_failure_sentinel(results[c])}
        scopes == {"project"} \cup (IF user_id # None THEN {"user"} ELSE {})
    IN  IF \E c \in answered : "project" \notin DOMAIN results[c]
        THEN TypeError
        ELSE [Returned(<<>>) EXCEPT
                 !.count = [s \in scopes |->
                               [r \in CountedResources |->
                                   sum_cells(answered, results, s, r)]]]

\* objects.InstanceMappingList.get_counts: {'project': {'instances': M},
\* 'user': {'instances': N}}, 'user' when a user is named
get_counts(mappings, user_id) ==
    ("project" :> ("instances" :> mappings.project))
        @@ (IF user_id # None THEN "user" :> ("instances" :> mappings.user)
            ELSE EmptyDict)

\* _cores_ram_count_placement: the cores and ram placement reports
_cores_ram_count_placement(placement, user_id) ==
    ("project" :> (("cores" :> placement.project.cores)
                       @@ ("ram" :> placement.project.ram)))
        @@ (IF user_id # None
            THEN "user" :> (("cores" :> placement.user.cores)
                                @@ ("ram" :> placement.user.ram))
            ELSE EmptyDict)

\* _instances_cores_ram_count_api_db_placement
_instances_cores_ram_count_api_db_placement(mappings, placement, user_id) ==
    LET total_counts == get_counts(mappings, user_id)
        cores_ram_counts == _cores_ram_count_placement(placement, user_id)
    IN  [s \in DOMAIN total_counts |-> cores_ram_counts[s] @@ total_counts[s]]

\* what the instance mappings and placement count
MappingCounts == {[project |-> 3, user |-> 1], [project |-> 7, user |-> 7]}
PlacementCounts ==
    {[project |-> [cores |-> 6, ram |-> 2048], user |-> [cores |-> 2, ram |-> 512]]}


\* _instances_cores_ram_count(context, project_id, user_id), one caller at a
\* time; the backends answer the path taken
InstancesCoresRamCount ==
    /\ Idle
    /\ \E project_id \in GateProjects, user_id \in UserIds,
          count_usage_from_placement \in BOOLEAN,
          results \in [Cells -> CellAnswers],
          mappings \in MappingCounts, placement \in PlacementCounts :
          LET query == /\ count_usage_from_placement
                       /\ count_must_query(UID_QFD_POPULATED_CACHE_ALL,
                                           UID_QFD_POPULATED_CACHE_BY_PROJECT,
                                           project_id)
              uid_qfd_populated ==
                  IF query THEN _user_id_queued_for_delete_populated(project_id)
                  ELSE TRUE
              path == count_path(count_usage_from_placement, uid_qfd_populated)
              reads == IF query THEN QueryRead ELSE <<>>
              counted ==
                  IF path = "_instances_cores_ram_count_api_db_placement"
                  THEN [Returned(reads) EXCEPT
                           !.count = _instances_cores_ram_count_api_db_placement(
                                         mappings, placement, user_id)]
                  ELSE [_instances_cores_ram_count_legacy(results, user_id)
                           EXCEPT !.reads = reads]
          IN  /\ UID_QFD_POPULATED_CACHE_BY_PROJECT' =
                    IF query /\ uid_qfd_populated
                    THEN UID_QFD_POPULATED_CACHE_BY_PROJECT \cup {project_id}
                    ELSE UID_QFD_POPULATED_CACHE_BY_PROJECT
              /\ last' = [counted EXCEPT
                             !.op = "_instances_cores_ram_count",
                             !.args = [project_id |-> project_id,
                                       user_id |-> user_id,
                                       count_usage_from_placement |->
                                           count_usage_from_placement,
                                       results |-> results,
                                       mappings |-> mappings,
                                       placement |-> placement],
                             !.result = path]
    /\ UNCHANGED <<dbvars, engvars, idvars, otherUserQuotas, userUsage,
                   driver_override, unified, populated,
                   UID_QFD_POPULATED_CACHE_ALL, procs>>

NextGateSeq ==
    \/ IsQfdPopulated
    \/ InstancesCoresRamCount
    \/ MigrationProgress
    \/ RecordsRegress
    \/ Return

SpecGateSeq == InitGate /\ [][NextGateSeq]_vars

\* the step is a call of op made while no call is being looked at
CallStep(op) == Idle /\ last'.op = op

\* C19: one caller at a time.  Once the check has recorded true for a scope
\* (the global flag is True; or the project is in the per-project cache or
\* the global flag is True when a project is checked), a later check of that
\* scope reports true and issues no existence query, whatever the records
\* now say, and what is recorded stays recorded.  While nothing is recorded
\* for the scope the call issues the query, and a query answering false
\* leaves the cache as it was.
C19_GateMemoisedOnceTrue ==
    /\ [][CallStep("is_qfd_populated") =>
            IF UID_QFD_POPULATED_CACHE_ALL
            THEN /\ last'.result = TRUE
                 /\ last'.reads = <<>>
                 /\ UNCHANGED gatevars
            ELSE /\ last'.reads = QueryRead
                 /\ last'.result = (populated = GateProjects)
                 /\ UID_QFD_POPULATED_CACHE_ALL' = last'.result
                 /\ UNCHANGED UID_QFD_POPULATED_CACHE_BY_PROJECT]_vars
    /\ [][(CallStep("_instances_cores_ram_count")
             /\ last'.args.count_usage_from_placement) =>
            IF \/ UID_QFD_POPULATED_CACHE_ALL
               \/ last'.args.project_id \in UID_QFD_POPULATED_CACHE_BY_PROJECT
            THEN /\ last'.result = "_instances_cores_ram_count_api_db_placement"
                 /\ last'.reads = <<>>
                 /\ UNCHANGED gatevars
            ELSE /\ last'.reads = QueryRead
                 /\ IF last'.args.project_id \in populated
                    THEN /\ last'.result =
                               "_instances_cores_ram_count_api_db_placement"
                         /\ UID_QFD_POPULATED_CACHE_BY_PROJECT' =
                               UID_QFD_POPULATED_CACHE_BY_PROJECT
                                  \cup {last'.args.project_id}
                         /\ UNCHANGED UID_QFD_POPULATED_CACHE_ALL
                    ELSE /\ last'.result = "_instances_cores_ram_count_legacy"
                         /\ UNCHANGED gatevars]_vars
    /\ [][/\ UID_QFD_POPULATED_CACHE_ALL => UID_QFD_POPULATED_CACHE_ALL'
          /\ UID_QFD_POPULATED_CACHE_BY_PROJECT
                \subseteq UID_QFD_POPULATED_CACHE_BY_PROJECT']_vars

\* a project is checked while the global flag is True and its own records
\* would fail the check now: no query, the placement path
C19_Witness ==
    /\ last.op = "_instances_cores_ram_count"
    /\ last.args.count_usage_from_placement
    /\ UID_QFD_POPULATED_CACHE_ALL
    /\ last.args.project_id \notin UID_QFD_POPULATED_CACHE_BY_PROJECT
    /\ last.args.project_id \notin populated
    /\ last.reads = <<>>
    /\ last.result = "_instances_cores_ram_count_api_db_placement"

-----------------------------------------------------------------------------
(* The migration gate under concurrent callers: every read of the cache,  *)
(* every existence query and every write of the cache is a step           *)

GateThreads == {1, 2}

\* a thread between two calls
GateIdle ==
    [pc |-> "idle", op |-> None, project_id |-> None, answer |-> FALSE]

\* the threads run with CONF.quota.count_usage_from_placement set
InitGateThreads ==
    /\ projectQuotas = EmptyDict
    /\ userQuotas = EmptyDict
    /\ ctxQuotaClass = None
    /\ classQuotas = EmptyDict
    /\ defaultClass = EmptyDict
    /\ usage = [n \in DOMAIN QUOTAS |-> 0]
    /\ CONF_driver = "nova.quota.DbQuotaDriver"
    /\ FreshEngine
    /\ FreshGate
    /\ NoGrants
    /\ unified = NoBackend
    /\ populated \in SUBSET GateProjects
    /\ procs = [t \in GateThreads |-> GateIdle]
    /\ last = NoCall

\* the frame of a step that touches only the thread's locals
GateLocalStep ==
    UNCHANGED <<dbvars, engvars, idvars, otherUserQuotas, userUsage,
                driver_override, unified, populated, gatevars, last>>

\* a thread enters is_qfd_populated(context)
CallIsQfdPopulated(t) ==
    /\ procs[t].pc = "idle"
    /\ procs' = [procs EXCEPT ![t] = [pc |-> "read", op |-> "is_qfd_populated",
                                      project_id |-> None, answer |-> FALSE]]
    /\ GateLocalStep

\* a thread enters _instances_cores_ram_count(context, project_id)
CallInstancesCoresRamCount(t) ==
    /\ procs[t].pc = "idle"
    /\ \E project_id \in GateProjects :
          procs' = [procs EXCEPT
                       ![t] = [pc |-> "read",
                               op |-> "_instances_cores_ram_count",
                               project_id |-> project_id, answer |-> FALSE]]
    /\ GateLocalStep

\* if not UID_QFD_POPULATED_CACHE_ALL:
IsQfdReadCache(t) ==
    /\ procs[t].pc = "read" /\ procs[t].op = "is_qfd_populated"
    /\ procs' = [procs EXCEPT
                    ![t].pc = IF is_qfd_must_query(UID_QFD_POPULATED_CACHE_ALL)
                              THEN "query" ELSE "return"]
    /\ GateLocalStep

\* _user_id_queued_for_delete_populated(context)
IsQfdQuery(t) ==
    /\ procs[t].pc = "query" /\ procs[t].op = "is_qfd_populated"
    /\ procs' = [procs EXCEPT
                    ![t].pc = "write",
                    ![t].answer = _user_id_queued_for_delete_populated(None)]
    /\ GateLocalStep

\* UID_QFD_POPULATED_CACHE_ALL = <the query's answer>
IsQfdWriteCache(t) ==
    /\ procs[t].pc = "write" /\ procs[t].op = "is_qfd_populated"
    /\ UID_QFD_POPULATED_CACHE_ALL' = procs[t].answer
    /\ procs' = [procs EXCEPT ![t].pc = "return"]
    /\ UNCHANGED <<dbvars, engvars, idvars, otherUserQuotas, userUsage,
                   driver_override, unified, populated,
                   UID_QFD_POPULATED_CACHE_BY_PROJECT, last>>

\* return UID_QFD_POPULATED_CACHE_ALL
IsQfdReturn(t) ==
    /\ procs[t].pc = "return" /\ procs[t].op = "is_qfd_populated"
    /\ last' = [Returned(<<>>) EXCEPT !.op = "is_qfd_populated",
                                      !.args = [project_id |-> None],
                                      !.result = UID_QFD_POPULATED_CACHE_ALL]
    /\ procs' = [procs EXCEPT ![t] = GateIdle]
    /\ UNCHANGED <<dbvars, engvars, idvars, otherUserQuotas, userUsage,
                   driver_override, unified, populated, gatevars>>

\* if (not UID_QFD_POPULATED_CACHE_ALL and
\*         project_id not in UID_QFD_POPULATED_CACHE_BY_PROJECT): ... else:
\*     uid_qfd_populated = True
CountReadCache(t) ==
    /\ procs[t].pc = "read" /\ procs[t].op = "_instances_cores_ram_count"
    /\ procs' = [procs EXCEPT
                    ![t].pc = IF count_must_query(
                                     UID_QFD_POPULATED_CACHE_ALL,
                                     UID_QFD_POPULATED_CACHE_BY_PROJECT,
                                     procs[t].project_id)
                              THEN "query" ELSE "return",
                    ![t].answer = TRUE]
    /\ GateLocalStep

\* uid_qfd_populated = _user_id_queued_for_delete_populated(context, project_id)
CountQuery(t) ==
    /\ procs[t].pc = "query" /\ procs[t].op = "_instances_cores_ram_count"
    /\ procs' = [procs EXCEPT
                    ![t].pc = "write",
                    ![t].answer = _user_id_queued_for_delete_populated(
                                      procs[t].project_id)]
    /\ GateLocalStep

\* if uid_qfd_populated: UID_QFD_POPULATED_CACHE_BY_PROJECT.add(project_id)
CountWriteCache(t) ==
    /\ procs[t].pc = "write" /\ procs[t].op = "_instances_cores_ram_count"
    /\ UID_QFD_POPULATED_CACHE_BY_PROJECT' =
          IF procs[t].answer
          THEN UID_QFD_POPULATED_CACHE_BY_PROJECT \cup {procs[t].project_id}
          ELSE UID_QFD_POPULATED_CACHE_BY_PROJECT
    /\ procs' = [procs EXCEPT ![t].pc = "return"]
    /\ UNCHANGED <<dbvars, engvars, idvars, otherUserQuotas, userUsage,
                   driver_override, unified, populated,
                   UID_QFD_POPULATED_CACHE_ALL, last>>

\* the count by the path chosen
CountReturn(t) ==
    /\ procs[t].pc = "return" /\ procs[t].op = "_instances_cores_ram_count"
    /\ last' = [Returned(<<>>) EXCEPT
                   !.op = "_instances_cores_ram_count",
                   !.args = [project_id |-> procs[t].project_id,
                             count_usage_from_placement |-> TRUE],
                   !.result = count_path(TRUE, procs[t].answer)]
    /\ procs' = [procs EXCEPT ![t] = GateIdle]
    /\ UNCHANGED <<dbvars, engvars, idvars, otherUserQuotas, userUsage,
                   driver_override, unified, populated, gatevars>>

NextGate ==
    \/ \E t \in GateThreads :
          \/ CallIsQfdPopulated(t)
          \/ CallInstancesCoresRamCount(t)
          \/ IsQfdReadCache(t)
          \/ IsQfdQuery(t)
          \/ IsQfdWriteCache(t)
          \/ IsQfdReturn(t)
          \/ CountReadCache(t)
          \/ CountQuery(t)
          \/ CountWriteCache(t)
          \/ CountReturn(t)
    \/ MigrationProgress

SpecGate == InitGateThreads /\ [][NextGate]_vars

\* C18: under every interleaving of the steps of concurrent
\* is_qfd_populated and _instances_cores_ram_count calls, no step takes
\* UID_QFD_POPULATED_CACHE_ALL from True to False and no step removes a
\* project from UID_QFD_POPULATED_CACHE_BY_PROJECT.
C18_GateCacheMonotonic ==
    [][/\ UID_QFD_POPULATED_CACHE_ALL => UID_QFD_POPULATED_CACHE_ALL'
       /\ UID_QFD_POPULATED_CACHE_BY_PROJECT
             \subseteq UID_QFD_POPULATED_CACHE_BY_PROJECT']_vars

-----------------------------------------------------------------------------
(* QuotaEngine._driver under concurrent callers: the read of the          *)
(* configuration, the comparison, each of the two assignments and the     *)
(* return are steps                                                       *)

DriverThreads == {1, 2}

\* a thread outside the property
DriverIdle == [pc |-> "idle", driver_name_in_config |-> None]

InitDriverThreads ==
    /\ projectQuotas = EmptyDict
    /\ userQuotas = EmptyDict
    /\ ctxQuotaClass = None
    /\ classQuotas = EmptyDict
    /\ defaultClass = EmptyDict
    /\ usage = [n \in DOMAIN QUOTAS |-> 0]
    /\ CONF_driver \in Drivers
    /\ FreshEngine
    /\ FreshGate
    /\ NoGrants
    /\ unified = NoBackend
    /\ populated = {}
    /\ procs = [t \in DriverThreads |-> DriverIdle]
    /\ last = NoCall

\* if self.__driver_override: ...  (none);
\* driver_name_in_config = CONF.quota.driver
DriverReadConfig(t) ==
    /\ procs[t].pc = "idle"
    /\ constructed < MaxConstructed
    /\ procs' = [procs EXCEPT ![t] = [pc |-> "compare",
                                      driver_name_in_config |-> CONF_driver]]
    /\ UNCHANGED <<dbvars, engvars, idvars, otherUserQuotas, userUsage,
                   driver_override, unified, populated, gatevars, last>>

\* if self.__driver_name != driver_name_in_config:
DriverCompare(t) ==
    /\ procs[t].pc = "compare"
    /\ procs' = [procs EXCEPT
                    ![t].pc = IF engine_driver_name
                                    # procs[t].driver_name_in_config
                              THEN "import" ELSE "return"]
    /\ UNCHANGED <<dbvars, engvars, idvars, otherUserQuotas, userUsage,
                   driver_override, unified, populated, gatevars, last>>

\* self.__driver = importutils.import_object(driver_name_in_config)
DriverImport(t) ==
    /\ procs[t].pc = "import"
    /\ engine_driver' = procs[t].driver_name_in_config
    /\ constructed' = constructed + 1
    /\ engine_driver_id' = constructed + 1
    /\ procs' = [procs EXCEPT ![t].pc = "set_name"]
    /\ UNCHANGED <<dbvars, CONF_driver, engine_driver_name, otherUserQuotas,
                   userUsage, driver_override, unified, populated, gatevars,
                   last>>

\* self.__driver_name = driver_name_in_config
DriverSetName(t) ==
    /\ procs[t].pc = "set_name"
    /\ engine_driver_name' = procs[t].driver_name_in_config
    /\ procs' = [procs EXCEPT ![t].pc = "return"]
    /\ UNCHANGED <<dbvars, CONF_driver, engine_driver, idvars, otherUserQuotas,
                   userUsage, driver_override, unified, populated, gatevars,
                   last>>

\* return self.__driver
DriverReturn(t) ==
    /\ procs[t].pc = "return"
    /\ last' = [Returned(<<>>) EXCEPT
                   !.op = "QuotaEngine._driver", !.driver = engine_driver,
                   !.args = [driver_name_in_config |->
                                 procs[t].driver_name_in_config]]
    /\ procs' = [procs EXCEPT ![t] = DriverIdle]
    /\ UNCHANGED <<dbvars, engvars, idvars, otherUserQuotas, userUsage,
                   driver_override, unified, populated, gatevars>>

NextDriverThreads ==
    \/ \E t \in DriverThreads :
          \/ DriverReadConfig(t)
          \/ DriverCompare(t)
          \/ DriverImport(t)
          \/ DriverSetName(t)
          \/ DriverReturn(t)
    \/ SetDriverConfig

SpecDriverThreads == InitDriverThreads /\ [][NextDriverThreads]_vars

\* C20: under concurrent _driver accesses and configuration changes, the
\* cache is consistent whenever the cached name is the configured name (the
\* cached driver is of the class that name names), and a caller is handed a
\* driver of the class whose name it read from the configuration.
C20_DriverCacheConsistent ==
    /\ (engine_driver_name # None /\ engine_driver_name = CONF_driver)
          => engine_driver = engine_driver_name
    /\ last.op = "QuotaEngine._driver"
          => last.driver = last.args.driver_name_in_config

-----------------------------------------------------------------------------
(* C21 *)

\* stored limits close enough together that one value exceeds both
NearLimits == {2, 3}

\* the DB driver's calls over projects whose two scopes have different
\* concrete limits
InitSplit ==
    /\ projectQuotas \in Dicts({"cores", "instances"}, NearLimits, 2)
    /\ userQuotas \in Dicts({"cores", "instances"}, NearLimits, 2)
    /\ ctxQuotaClass = None
    /\ classQuotas = EmptyDict
    /\ defaultClass = EmptyDict
    /\ usage = [n \in DOMAIN QUOTAS |-> 0]
    /\ CONF_driver = "nova.quota.DbQuotaDriver"
    /\ FreshEngine
    /\ FreshGate
    /\ NoGrants
    /\ Elsewhere
    /\ last = NoCall

SpecSplit == InitSplit /\ [][Next]_vars

\* the call reaches the split check with exactly the keys given in both
\* value-sets: no key is given in one set only
ReachesSplitCheck ==
    /\ IsDualCheck
    /\ PassesValidation
    /\ OneSetKeys = {}
    /\ BothSetsKeys # {}

\* C21: in the split check, a resource whose project value exceeds its
\* project-scope limit and whose user value exceeds its user-scope limit is
\* reported with the user-scope limit, as headroom and in quotas.
C21_UserScopeTakesPrecedence ==
    ReachesSplitCheck =>
        \A k \in BothSetsKeys :
            (/\ Exceeds(ProjectScopeLimit(k), last.project_values[k])
             /\ Exceeds(UserScopeLimit(k), last.user_values[k])) =>
                /\ last.outcome = "OverQuota"
                /\ k \in Range(last.overs)
                /\ last.headroom[k] = UserScopeLimit(k)
                /\ last.quotas[k] = UserScopeLimit(k)

-----------------------------------------------------------------------------
(* C22: which counts _instances_cores_ram_count returns *)

\* the migration gate as the call finds it: recorded for all projects,
\* recorded for this project, or the records of this project answer true
GateHolds(project_id) ==
    \/ UID_QFD_POPULATED_CACHE_ALL
    \/ project_id \in UID_QFD_POPULATED_CACHE_BY_PROJECT
    \/ project_id \in populated

CountScopes(user_id) ==
    {"project"} \cup (IF user_id # None THEN {"user"} ELSE {})

\* instances from the instance mappings, cores and ram from placement
InventoryCounts(a) ==
    [s \in CountScopes(a.user_id) |->
        ("instances" :> a.mappings[s]) @@ ("cores" :> a.placement[s].cores)
            @@ ("ram" :> a.placement[s].ram)]

\* what one cell adds to a total
Contribution(results, c, s, r) ==
    IF results[c].sentinel = None THEN results[c][s][r] ELSE 0

\* the totals over the cells that answered
LegacyCounts(results, user_id) ==
    [s \in CountScopes(user_id) |->
        [r \in CountedResources |->
            Contribution(results, "cell1", s, r)
                + Contribution(results, "cell2", s, r)
                + Contribution(results, "cell3", s, r)]]

\* C22: _instances_cores_ram_count returns the placement and instance-mapping
\* counts exactly when count_usage_from_placement is on and the migration
\* gate holds for the project, and the scatter/gather counts otherwise; both
\* are a 'project' entry with instances, cores and ram, and a 'user' entry
\* with the same keys exactly when a user id is given.
C22_CountPathFollowsGate ==
    [][CallStep("_instances_cores_ram_count") =>
          LET a == last'.args
              inventory == /\ a.count_usage_from_placement
                           /\ GateHolds(a.project_id)
          IN  /\ last'.outcome = "ok"
              /\ last'.result =
                    IF inventory
                    THEN "_instances_cores_ram_count_api_db_placement"
                    ELSE "_instances_cores_ram_count_legacy"
              /\ last'.count =
                    IF inventory THEN InventoryCounts(a)
                    ELSE LegacyCounts(a.results, a.user_id)
              /\ DOMAIN last'.count = CountScopes(a.user_id)
              /\ \A s \in DOMAIN last'.count :
                    DOMAIN last'.count[s] = CountedResources]_vars

\* counting from placement is on, the gate does not hold, a user is named:
\* the scatter/gather counts come back with a 'user' entry
C22_Witness ==
    /\ last.op = "_instances_cores_ram_count"
    /\ last.args.count_usage_from_placement
    /\ last.args.user_id # None
    /\ last.result = "_instances_cores_ram_count_legacy"
    /\ "user" \in DOMAIN last.count
    /\ last.count["project"]["instances"] > 0

-----------------------------------------------------------------------------
(* C23: the scatter/gather count on its own *)

\* _instances_cores_ram_count_legacy(context, project_id, user_id)
InstancesCoresRamCountLegacy ==
    /\ Idle
    /\ \E project_id \in GateProjects, user_id \in UserIds,
          results \in [Cells -> CellAnswers] :
          last' = [_instances_cores_ram_count_legacy(results, user_id) EXCEPT
                      !.op = "_instances_cores_ram_count_legacy",
                      !.args = [project_id |-> project_id,
                                user_id |-> user_id,
                                results |-> results]]
    /\ OnlyLast

NextLegacyCount == InstancesCoresRamCountLegacy \/ Return

SpecLegacyCount == InitGate /\ [][NextLegacyCount]_vars

FailedCells(results) == {c \in Cells : results[c].sentinel # None}

\* C23: the scatter/gather count returns, for every scope and each of
\* instances, cores and ram, the sum over the cells that did not fail; a cell
\* that timed out or raised adds nothing and never makes the call raise, so
\* with every cell failing all totals are zero; the user totals are there
\* exactly when a user id is given.
C23_LegacySumsAnsweringCells ==
    last.op = "_instances_cores_ram_count_legacy" =>
        LET results == last.args.results
        IN  /\ last.outcome = "ok"
            /\ ("user" \in DOMAIN last.count) <=> (last.args.user_id # None)
            /\ "project" \in DOMAIN last.count
            /\ \A s \in DOMAIN last.count : \A r \in CountedResources :
                  /\ last.count[s][r] =
                        Contribution(results, "cell1", s, r)
                            + Contribution(results, "cell2", s, r)
                            + Contribution(results, "cell3", s, r)
                  /\ FailedCells(results) = Cells => last.count[s][r] = 0

\* one cell timed out, one raised, one answered, and a user is named
C23_Witness ==
    /\ last.op = "_instances_cores_ram_count_legacy"
    /\ last.outcome = "ok"
    /\ last.args.user_id # None
    /\ last.args.results["cell1"].sentinel = "did_not_respond_sentinel"
    /\ last.args.results["cell2"].sentinel = "Exception"
    /\ last.args.results["cell3"].sentinel = None
    /\ last.count["project"]["cores"] = 8

-----------------------------------------------------------------------------
(* C24: counting server group members across cells *)

\* the instances of the group that belong to the user
Members == {"i1", "i2"}

\* what scatter_gather_all_cells holds for one cell: the set of member uuids
\* found there, or did_not_respond_sentinel, or the exception raised
MemberAnswers ==
    {[sentinel |-> "did_not_respond_sentinel"], [sentinel |-> "Exception"]}
        \cup {[sentinel |-> None, uuids |-> u] : u \in SUBSET Members}

RECURSIVE union_cells(_, _)
union_cells(cells, per_cell) ==
    IF cells = {} THEN {}
    ELSE LET c == CHOOSE c \in cells : TRUE
         IN  per_cell[c].uuids \cup union_cells(cells \ {c}, per_cell)

\* _server_group_count_members_by_user_legacy: every value of per_cell is
\* or-ed into the set, and `set |= x` raises TypeError unless x is a set
_server_group_count_members_by_user_legacy(per_cell, build_requests) ==
    IF \E c \in DOMAIN per_cell : "uuids" \notin DOMAIN per_cell[c]
    THEN TypeError
    ELSE LET instance_uuids ==
                 union_cells(DOMAIN per_cell, per_cell) \cup build_requests
         IN  [Returned(<<>>) EXCEPT
                 !.count = "user" :> ("server_group_members" :>
                                          Cardinality(instance_uuids))]

ServerGroupCountMembersByUserLegacy ==
    /\ Idle
    /\ \E per_cell \in [Cells -> MemberAnswers],
          build_requests \in SUBSET Members :
          last' = [_server_group_count_members_by_user_legacy(
                       per_cell, build_requests) EXCEPT
                      !.op = "_server_group_count_members_by_user_legacy",
                      !.args = [per_cell |-> per_cell,
                                build_requests |-> build_requests]]
    /\ OnlyLast

NextMembers == ServerGroupCountMembersByUserLegacy \/ Return

SpecMembers == InitGate /\ [][NextMembers]_vars

\* the members one cell reports; none when the cell failed
FoundIn(per_cell, c) ==
    IF per_cell[c].sentinel = None THEN per_cell[c].uuids ELSE {}

\* C24: the legacy server-group-members count is the number of distinct
\* member instances found in the cells and in the build requests, and a cell
\* whose result is a failure sentinel adds no members and does not make the
\* count raise.
C24_MembersCountedOnceDespiteFailure ==
    last.op = "_server_group_count_members_by_user_legacy" =>
        LET per_cell == last.args.per_cell
        IN  /\ last.outcome = "ok"
            /\ last.count["user"]["server_group_members"] =
                  Cardinality(FoundIn(per_cell, "cell1")
                                 \cup FoundIn(per_cell, "cell2")
                                 \cup FoundIn(per_cell, "cell3")
                                 \cup last.args.build_requests)

-----------------------------------------------------------------------------
(* C25: the chain a limit is resolved along *)

ClassNames == {None, "gold", "silver"}

\* one distinct value for every place a limit can come from
InitChain ==
    /\ userQuotas \in Dicts({"cores", "instances"}, {-1, 3}, 2)
    /\ projectQuotas \in Dicts({"cores", "instances"}, {-1, 5}, 2)
    /\ classQuotas \in Dicts({"cores", "instances"}, {7}, 2)
    /\ defaultClass \in Dicts({"cores", "instances"}, {9}, 2)
    /\ ctxQuotaClass \in ClassNames
    /\ usage = [n \in DOMAIN QUOTAS |-> 0]
    /\ CONF_driver = "nova.quota.DbQuotaDriver"
    /\ FreshEngine
    /\ FreshGate
    /\ NoGrants
    /\ Elsewhere
    /\ last = NoCall

\* the {name: {'limit': limit}} a resolution returns
AsLimits(limits) == [n \in DOMAIN limits |-> [limit |-> limits[n]]]

\* DbQuotaDriver.get_project_quotas(context, resources, project_id,
\* quota_class, usages=False)
DbGetProjectQuotas ==
    /\ Idle
    /\ \E project_id \in ProjectIds, quota_class \in ClassNames :
          last' = [Returned(get_project_quotas_reads(project_id, quota_class,
                                                     EmptyDict)) EXCEPT
                      !.op = "get_project_quotas",
                      !.driver = "DbQuotaDriver",
                      !.args = [project_id |-> project_id,
                                quota_class |-> quota_class],
                      !.result = AsLimits(get_project_quotas(
                                     QUOTAS, project_id, quota_class,
                                     EmptyDict))]
    /\ OnlyLast

\* DbQuotaDriver.get_user_quotas(context, resources, project_id, user_id,
\* quota_class, usages=False)
DbGetUserQuotas ==
    /\ Idle
    /\ \E project_id \in ProjectIds, quota_class \in ClassNames :
          last' = [Returned(get_user_quotas_reads(project_id, quota_class,
                                                  EmptyDict)) EXCEPT
                      !.op = "get_user_quotas",
                      !.driver = "DbQuotaDriver",
                      !.args = [project_id |-> project_id,
                                quota_class |-> quota_class],
                      !.result = AsLimits(get_user_quotas(
                                     QUOTAS, project_id, quota_class,
                                     EmptyDict))]
    /\ OnlyLast

NextChain == DbGetProjectQuotas \/ DbGetUserQuotas \/ Return

SpecChain == InitChain /\ [][NextChain]_vars

\* the quota class that counts for the call
ClassOfCall ==
    IF last.args.project_id = context_project_id THEN ctxQuotaClass
    ELSE last.args.quota_class

\* the limit of resource n from the project's override downwards
ProjectChain(n) ==
    IF n \in DOMAIN projectQuotas THEN projectQuotas[n]
    ELSE IF ClassOfCall = "gold" /\ n \in DOMAIN classQuotas THEN classQuotas[n]
    ELSE IF n \in DOMAIN defaultClass THEN defaultClass[n]
    ELSE default(QUOTAS[n])

UserChain(n) ==
    IF n \in DOMAIN userQuotas THEN userQuotas[n] ELSE ProjectChain(n)

\* C25: for every resource the user-scope limit is the per-user override if
\* there is one, else the per-project override if there is one, else the
\* value of the quota class (the context's when the project is the
\* context's, otherwise the one passed in), else the value of the 'default'
\* class, else the configured default; the project-scope limit is the same
\* chain without the per-user step.
C25_LimitResolutionChain ==
    /\ (last.op = "get_user_quotas" /\ last.driver = "DbQuotaDriver") =>
          /\ DOMAIN last.result = DOMAIN QUOTAS
          /\ \A n \in DOMAIN QUOTAS : last.result[n].limit = UserChain(n)
    /\ (last.op = "get_project_quotas" /\ last.driver = "DbQuotaDriver") =>
          /\ DOMAIN last.result = DOMAIN QUOTAS
          /\ \A n \in DOMAIN QUOTAS : last.result[n].limit = ProjectChain(n)

\* another project than the context's, asked with class gold while the
\* context's class is silver: with no override the limit is gold's
C25_Witness ==
    /\ last.op = "get_user_quotas"
    /\ last.driver = "DbQuotaDriver"
    /\ last.args.project_id # context_project_id
    /\ last.args.quota_class = "gold"
    /\ ctxQuotaClass = "silver"
    /\ "cores" \notin DOMAIN userQuotas \cup DOMAIN projectQuotas
    /\ "cores" \in DOMAIN classQuotas
    /\ last.result["cores"].limit = 7
    /\ "instances" \in DOMAIN userQuotas \cap DOMAIN projectQuotas

-----------------------------------------------------------------------------
(* C26: sums and differences of limits *)

Operands == -3 .. 4

\* DbQuotaDriver._sum_quota_values(v1, v2)
SumQuotaValues ==
    /\ Idle
    /\ \E v1 \in Operands, v2 \in Operands :
          last' = [Returned(<<>>) EXCEPT
                      !.op = "_sum_quota_values",
                      !.args = [v1 |-> v1, v2 |-> v2],
                      !.result = _sum_quota_values(v1, v2)]
    /\ OnlyLast

\* DbQuotaDriver._sub_quota_values(v1, v2)
SubQuotaValues ==
    /\ Idle
    /\ \E v1 \in Operands, v2 \in Operands :
          last' = [Returned(<<>>) EXCEPT
                      !.op = "_sub_quota_values",
                      !.args = [v1 |-> v1, v2 |-> v2],
                      !.result = _sub_quota_values(v1, v2)]
    /\ OnlyLast

NextValues == SumQuotaValues \/ SubQuotaValues \/ Return

SpecValues == InitGate /\ [][NextValues]_vars

\* C26: _sum_quota_values(a, b) and _sub_quota_values(a, b) are -1 whenever
\* an operand is <= -1, and a + b and a - b otherwise; so the sum is the same
\* with its operands exchanged, and with both operands non-negative and
\* a >= b neither result is below -1.
C26_UnlimitedAbsorbs ==
    /\ last.op = "_sum_quota_values" =>
          LET a == last.args.v1
              b == last.args.v2
          IN  /\ last.result = IF a <= -1 \/ b <= -1 THEN -1 ELSE a + b
              /\ last.result = _sum_quota_values(b, a)
              /\ (a >= 0 /\ b >= 0 /\ a >= b) => last.result >= -1
    /\ last.op = "_sub_quota_values" =>
          LET a == last.args.v1
              b == last.args.v2
          IN  /\ last.result = IF a <= -1 \/ b <= -1 THEN -1 ELSE a - b
              /\ (a >= 0 /\ b >= 0 /\ a >= b) => last.result >= -1

\* an operand below -1 makes the difference Unlimited
C26_Witness ==
    /\ last.op = "_sub_quota_values"
    /\ last.args.v1 = 4
    /\ last.args.v2 = -3
    /\ last.result = -1

-----------------------------------------------------------------------------
(* C27: what a limit check leaves of its arguments *)

\* C27: a limit check changes nothing the caller can see: after
\* limit_check_project_and_user, returned or raised, the project_values and
\* user_values mappings passed in hold the keys and values they held before.
C27_CheckLeavesArgumentsAlone ==
    IsDualCheck =>
        /\ last.project_values_after = last.project_values
        /\ last.user_values_after = last.user_values

-----------------------------------------------------------------------------
(* C28: what the UnifiedLimitsDriver reports *)

\* UnifiedLimitsDriver.get_defaults
UnifiedLimitsDriver_get_defaults(resources) ==
    LET local_limits == unified.local_limits
        placement_limits == unified.placement_default_limits
    IN  [Returned(<<"local_limit.get_legacy_default_limits",
                    "placement_limit.get_legacy_default_limits">>) EXCEPT
            !.result = [n \in DOMAIN resources |->
                           unified_limit(n, placement_limits, local_limits)]]

\* UnifiedLimitsDriver.get_class_quotas
UnifiedLimitsDriver_get_class_quotas(resources, quota_class) ==
    UnifiedLimitsDriver_get_defaults(resources)

\* backends where a resource may have a limit in both places
LimitBackends ==
    {[local_limits |-> ll, placement_default_limits |-> pd,
      placement_project_limits |-> pl, local_in_use |-> li,
      placement_counts |-> pc] :
        ll \in {EmptyDict, "fixed_ips" :> 10,
                ("cores" :> 99) @@ ("fixed_ips" :> 10)},
        pd \in {("cores" :> 0) @@ ("instances" :> 0),
                ("cores" :> 20) @@ ("instances" :> 10)},
        pl \in {[p \in ProjectIds |-> ("cores" :> 0) @@ ("instances" :> 0)],
                ("p1" :> (("cores" :> 8) @@ ("instances" :> 4)))
                    @@ ("p2" :> (("cores" :> 16) @@ ("instances" :> 0)))},
        li \in {[p \in ProjectIds |-> EmptyDict],
                ("p1" :> ("fixed_ips" :> 1)) @@ ("p2" :> ("cores" :> 9))},
        pc \in {[p \in ProjectIds |-> EmptyDict],
                ("p1" :> ("cores" :> 3)) @@ ("p2" :> ("cores" :> 7))}}

InitUnifiedLimits ==
    /\ projectQuotas = EmptyDict
    /\ userQuotas = EmptyDict
    /\ ctxQuotaClass = None
    /\ classQuotas = EmptyDict
    /\ defaultClass = EmptyDict
    /\ usage = [n \in DOMAIN QUOTAS |-> 0]
    /\ CONF_driver = "nova.quota.UnifiedLimitsDriver"
    /\ FreshEngine
    /\ FreshGate
    /\ NoGrants
    /\ unified \in LimitBackends
    /\ populated = {}
    /\ procs = <<>>
    /\ last = NoCall

UnifiedGetDefaults ==
    /\ Idle
    /\ last' = [UnifiedLimitsDriver_get_defaults(QUOTAS) EXCEPT
                   !.op = "get_defaults", !.driver = "UnifiedLimitsDriver"]
    /\ OnlyLast

UnifiedGetClassQuotas ==
    /\ Idle
    /\ \E quota_class \in ClassNames :
          last' = [UnifiedLimitsDriver_get_class_quotas(QUOTAS, quota_class)
                      EXCEPT !.op = "get_class_quotas",
                             !.driver = "UnifiedLimitsDriver",
                             !.args = [quota_class |-> quota_class]]
    /\ OnlyLast

UnifiedGetReserved ==
    /\ Idle
    /\ last' = [Returned(<<>>) EXCEPT
                   !.op = "get_reserved", !.driver = "UnifiedLimitsDriver",
                   !.result = get_reserved("nova.quota.UnifiedLimitsDriver")]
    /\ OnlyLast

NextUnifiedLimits ==
    \/ UnifiedGetProjectQuotas
    \/ UnifiedGetDefaults
    \/ UnifiedGetClassQuotas
    \/ UnifiedGetReserved
    \/ Return

SpecUnifiedLimits == InitUnifiedLimits /\ [][NextUnifiedLimits]_vars

\* the external limit if the service lists the resource, else the local
\* default if there is one, else -1
ExpectedLimit(n, external) ==
    IF n \in DOMAIN external THEN external[n]
    ELSE IF n \in DOMAIN unified.local_limits THEN unified.local_limits[n]
    ELSE -1

\* the placement count if there is one, else the local count, else 0
ExpectedInUse(n, project_id) ==
    IF n \in DOMAIN unified.placement_counts[project_id]
    THEN unified.placement_counts[project_id][n]
    ELSE IF n \in DOMAIN unified.local_in_use[project_id]
    THEN unified.local_in_use[project_id][n]
    ELSE 0

\* C28: UnifiedLimitsDriver.get_defaults and get_project_quotas report for
\* every registered resource the limit of the external limits service if it
\* lists the resource, else the local default if there is one, else -1; with
\* usages asked for, in_use is the placement count if there is one, else the
\* local count if there is one, else 0; get_class_quotas is get_defaults for
\* every quota class; get_reserved is 0.
C28_UnifiedLimitsAndUsages ==
    /\ IsUnifiedCall("get_defaults") =>
          /\ last.outcome = "ok"
          /\ DOMAIN last.result = DOMAIN QUOTAS
          /\ \A n \in DOMAIN QUOTAS :
                last.result[n] = ExpectedLimit(n, unified.placement_default_limits)
    /\ (IsUnifiedCall("get_project_quotas") /\ last.outcome = "ok") =>
          /\ DOMAIN last.result = DOMAIN QUOTAS
          /\ \A n \in DOMAIN QUOTAS :
                /\ last.result[n].limit =
                      ExpectedLimit(n, unified.placement_project_limits[
                                           last.args.project_id])
                /\ ("in_use" \in DOMAIN last.result[n]) <=> last.args.usages
                /\ last.args.usages =>
                      last.result[n].in_use =
                          ExpectedInUse(n, last.args.project_id)
    /\ IsUnifiedCall("get_class_quotas") =>
          /\ last.outcome = "ok"
          /\ last.result = UnifiedLimitsDriver_get_defaults(QUOTAS).result
          /\ \A n \in DOMAIN QUOTAS :
                last.result[n] = ExpectedLimit(n, unified.placement_default_limits)
    /\ IsUnifiedCall("get_reserved") => last.result = 0

\* cores has a limit and a count in both places: the external ones are
\* reported; fixed_ips has a local limit only
C28_Witness ==
    /\ IsUnifiedCall("get_project_quotas")
    /\ last.outcome = "ok"
    /\ last.args.usages
    /\ last.args.project_id = "p2"
    /\ "cores" \in DOMAIN unified.local_limits
    /\ last.result["cores"].limit = 16
    /\ last.result["cores"].in_use = 7
    /\ "cores" \in DOMAIN unified.local_in_use["p2"]
    /\ last.result["fixed_ips"].limit = 10

-----------------------------------------------------------------------------
(* C29: the floor of a project limit *)

\* what the users of the project have been handed for resource n
HandedOut(n) == SumOfLimits({q \in Granted(n) : q.hard_limit >= 0})

\* C29: for a concrete project limit the project-level minimum that
\* get_settable_quotas reports is never below the sum of the per-user limits
\* granted in the project, also when that sum exceeds the limit or a
\* per-user override is Unlimited.
C29_MinimumCoversGrants ==
    IsSettableForProject =>
        \A n \in DOMAIN QUOTAS :
            ProjectLimit(n) >= 0 => last.result[n].minimum >= HandedOut(n)

-----------------------------------------------------------------------------
(* C30: where the entries of the migration-gate cache come from *)

\* thread t takes the step
StepOf(t) == procs'[t] # procs[t]

\* what the existence check of thread t's scope answers now
CheckOfScope(t) ==
    IF procs[t].op = "is_qfd_populated" THEN populated = GateProjects
    ELSE procs[t].project_id \in populated

\* C30: a project enters UID_QFD_POPULATED_CACHE_BY_PROJECT only by the
\* write of a count call for that project whose existence check answered
\* true, and UID_QFD_POPULATED_CACHE_ALL becomes True only by the write of an
\* is_qfd_populated call whose check answered true; the answer written is
\* the one the check of that scope gave; a count call never writes the
\* global flag and is_qfd_populated never writes the per-project set; so a
\* count takes the placement path only on a recorded or a fresh true answer.
C30_CacheEntriesComeFromChecks ==
    /\ [][\A p \in GateProjects :
            (p \notin UID_QFD_POPULATED_CACHE_BY_PROJECT
                /\ p \in UID_QFD_POPULATED_CACHE_BY_PROJECT') =>
                \E t \in GateThreads :
                    /\ StepOf(t)
                    /\ procs[t].pc = "write"
                    /\ procs[t].op = "_instances_cores_ram_count"
                    /\ procs[t].project_id = p
                    /\ procs[t].answer]_vars
    /\ [][(~UID_QFD_POPULATED_CACHE_ALL /\ UID_QFD_POPULATED_CACHE_ALL') =>
            \E t \in GateThreads :
                /\ StepOf(t)
                /\ procs[t].pc = "write"
                /\ procs[t].op = "is_qfd_populated"
                /\ procs[t].answer]_vars
    /\ [][\A t \in GateThreads :
            (StepOf(t) /\ procs'[t].pc = "write") =>
                /\ procs[t].pc = "query"
                /\ procs'[t].op = procs[t].op
                /\ procs'[t].project_id = procs[t].project_id
                /\ procs'[t].answer = CheckOfScope(t)]_vars
    /\ [][\A t \in GateThreads :
            StepOf(t) =>
                /\ procs[t].op = "_instances_cores_ram_count" =>
                      UNCHANGED UID_QFD_POPULATED_CACHE_ALL
                /\ procs[t].op = "is_qfd_populated" =>
                      UNCHANGED UID_QFD_POPULATED_CACHE_BY_PROJECT]_vars
    /\ [][\A t \in GateThreads :
            (StepOf(t) /\ procs[t].op = "_instances_cores_ram_count"
                /\ procs[t].pc = "return"
                /\ last'.result = "_instances_cores_ram_count_api_db_placement") =>
                procs[t].answer]_vars
    /\ [][\A t \in GateThreads :
            (StepOf(t) /\ procs[t].op = "_instances_cores_ram_count"
                /\ procs[t].pc = "read" /\ procs'[t].pc = "return") =>
                \/ UID_QFD_POPULATED_CACHE_ALL
                \/ procs[t].project_id \in UID_QFD_POPULATED_CACHE_BY_PROJECT]_vars

\* p1 was recorded by a count, the global flag was never set, the other
\* project is not migrated, and a count for p1 took the placement path
C30_Witness ==
    /\ UID_QFD_POPULATED_CACHE_BY_PROJECT = {"p1"}
    /\ ~UID_QFD_POPULATED_CACHE_ALL
    /\ populated = {"p1"}
    /\ last.op = "_instances_cores_ram_count"
    /\ last.args.project_id = "p1"
    /\ last.result = "_instances_cores_ram_count_api_db_placement"

====
